---- MODULE Spec2Model ----
(***************************************************************************)
(* A model of factiva-fetcher: the retrieval loop of FactivaStreamer       *)
(* (src/src/api/streamer.py) driven by its consumers (src/src/api/main.py, *)
(* the usage block of streamer.py, the list() consumer of the test suite), *)
(* and the per-message pipeline of process_pubsub_message                  *)
(* (src/src/functions/processor/main.py).                                  *)
(***************************************************************************)
EXTENDS Integers, Sequences, FiniteSets, TLC

VARIABLES
    entry,        \* which program consumes stream(): "main", "example", "collect"
    batch_size,   \* stream() argument
    max_retries,  \* stream() argument
    pc,           \* position of the ingestion program
    retry_count,  \* stream() local
    documents,    \* stream() local: the batch the last pull returned
    idx,          \* number of items of documents the for loop has taken
    data,         \* the document the consumer holds (main.py: data)
    pullLog,      \* one entry per get_documents call: its arguments, the
                  \* batch returned and its length (-1: the call raised) and
                  \* how the attempt went ("iterating", "done", "failed")
    sleeps,       \* the arguments of the time.sleep calls, in order
    yielded,      \* <<pull number, index in batch>> of every yield, in order
    published,    \* <<pull number, index in batch>> of every publish, in order
    closeCalls,   \* number of client.close() invocations
    gen,          \* state of the generator object
    outcome,      \* how the loop was left
    event,            \* the event handed to process_pubsub_message
    api_key,          \* "OPENAI_API_KEY" in os.environ
    webhook_url,      \* a Discord webhook URL is configured
    project_id,       \* a GCP project id is configured
    bigquery_imported,\* the import of google.cloud.bigquery succeeded
    ppc,              \* position in process_pubsub_message
    pubsub_message,   \* process_pubsub_message local
    analysis_result,  \* process_pubsub_message local
    calls,            \* the calls process_pubsub_message has made, in order
    modelCalls,       \* the calls of the model (openai.ChatCompletion.create)
    posts,            \* the payloads POSTed to the webhook
    inserts,          \* the rows handed to insert_rows_json
    result,           \* what process_pubsub_message returned or raised
    ctor_args,        \* the arguments of FactivaStreamer(...)
    environ,          \* os.environ when the constructor runs
    has_close,        \* the feed client offers a close operation
    opc,              \* position in the life of the streamer object
    streamer,         \* the FactivaStreamer object, once constructed
    clientInits,      \* the keyword arguments of the DNAStreaming(...) calls
    closeLog,         \* one entry per close() call on the streamer
    processedLog,     \* one entry per _process_document call: argument, result
    ucall,            \* the function called on its own, with its arguments
    uout,             \* what that call returned or raised, and what it did
    frames            \* per invocation of process_pubsub_message running
                      \* next to another: its event, its position, its
                      \* locals, the answers its collaborators gave it and
                      \* what it sent out

streamVars == <<entry, batch_size, max_retries, pc, retry_count, documents, idx,
                data, pullLog, sleeps, yielded, published, closeCalls,
                gen, outcome>>

procVars == <<event, api_key, webhook_url, project_id, bigquery_imported, ppc,
              pubsub_message, analysis_result, calls, modelCalls, posts,
              inserts, result>>

objVars == <<ctor_args, environ, has_close, opc, streamer, clientInits,
             closeLog, processedLog>>

unitVars == <<ucall, uout>>

invVars == <<frames>>

vars == <<streamVars, procVars, objVars, unitVars, invVars>>

-----------------------------------------------------------------------------
(* Bounds of the model *)

\* get_documents is called at most MaxPulls times in a run
MaxPulls == 4
\* the feed returns at most MaxBatchLen items per pull
MaxBatchLen == 2
\* at most MaxBatches of the pulls of a run return a batch
MaxBatches == 2
\* the test-suite consumer passes max_retries in 0..MaxRetriesArg
\* (and batch_size in 1..MaxBatchLen)
MaxRetriesArg == 2
\* close() is called at most MaxCloses times on a streamer
MaxCloses == 2
\* _process_document is called at most MaxDocs times on a streamer
MaxDocs == 2
\* a generated model text has at most MaxLines lines
MaxLines == 3
\* a generated topics section has at most MaxBullets bullet lines
MaxBullets == 4

(* Program constants *)
DefaultBatchSize == 10
DefaultMaxRetries == 3
BackoffUnit == 5

-----------------------------------------------------------------------------
(* Python values *)

None == "<None>"

\* dict.get(key): the value under key, None when the key is absent
Get(d, k) == IF k \in DOMAIN d THEN d[k] ELSE None

\* dict.get(key, default)
GetDefault(d, k, default) == IF k \in DOMAIN d THEN d[k] ELSE default

\* truth value of a string-or-None
Truthy(v) == v # None /\ v # ""

\* a or b
Or(a, b) == IF Truthy(a) THEN a ELSE b

Min(a, b) == IF a <= b THEN a ELSE b

-----------------------------------------------------------------------------
(* The feed *)

STREAM_ID == "test_stream_id"

\* raw provider documents, one per naming of the fields
RawPrimary ==
    [id |-> "doc1", title |-> "Test Title 1", body |-> "Test Body 1",
     source |-> "Test Source 1", publicationDate |-> "2023-01-01T00:00:00Z",
     language |-> "en", subjects |-> <<"Business">>]

RawVariant ==
    [documentId |-> "doc2", headline |-> "Test Title 2", text |-> "Test Body 2",
     publication |-> "Test Source 2", language |-> "ja"]

RawDocs == {RawPrimary, RawVariant}

\* the other naming
Other(d) == IF d = RawPrimary THEN RawVariant ELSE RawPrimary

\* k items, the namings taking turns, the first one being d
RECURSIVE Items(_, _)
Items(d, k) == IF k = 0 THEN <<>> ELSE <<d>> \o Items(Other(d), k - 1)

\* the batches a pull with this batch_size may return: up to batch_size items
Batches(n) ==
    {Items(d, k) : d \in RawDocs, k \in 0..Min(n, MaxBatchLen)}

\* raw provider documents for _process_document: the two namings, both
\* namings at once, the primary keys holding empty strings, a document with
\* none of the keys, a document with no identifier
RawBoth ==
    [id |-> "doc3", documentId |-> "doc3-variant",
     title |-> "Test Title 3", headline |-> "Test Headline 3",
     body |-> "Test Body 3", text |-> "Test Text 3",
     source |-> "Test Source 3", publication |-> "Test Publication 3"]

RawEmptyPrimary ==
    [id |-> "", documentId |-> "doc4", title |-> "", headline |-> "Test Title 4",
     body |-> "", text |-> "Test Body 4",
     source |-> "", publication |-> "Test Source 4"]

RawBare == [language |-> "en"]

RawNoId ==
    [headline |-> "Test Title 6", text |-> "Test Body 6",
     publication |-> "Test Source 6"]

RawInputs ==
    {RawPrimary, RawVariant, RawBoth, RawEmptyPrimary, RawBare, RawNoId}

-----------------------------------------------------------------------------
(* FactivaStreamer._process_document *)

\* _process_document looking under the variant key first
_process_document_VariantFirst(document) ==
    [id |-> Or(Get(document, "documentId"), Get(document, "id")),
     title |-> Or(Get(document, "headline"), Get(document, "title")),
     body |-> Or(Get(document, "text"), Get(document, "body")),
     publication_date |-> Get(document, "publicationDate"),
     source |-> Or(Get(document, "publication"), Get(document, "source")),
     metadata |->
        [language |-> Get(document, "language"),
         subjects |-> GetDefault(document, "subjects", <<>>),
         companies |-> GetDefault(document, "companies", <<>>),
         regions |-> GetDefault(document, "regions", <<>>)],
     raw_data |-> document]

_process_document(document) ==
    [id |-> Or(Get(document, "id"), Get(document, "documentId")),
     title |-> Or(Get(document, "title"), Get(document, "headline")),
     body |-> Or(Get(document, "body"), Get(document, "text")),
     publication_date |-> Get(document, "publicationDate"),
     source |-> Or(Get(document, "source"), Get(document, "publication")),
     metadata |->
        [language |-> Get(document, "language"),
         subjects |-> GetDefault(document, "subjects", <<>>),
         companies |-> GetDefault(document, "companies", <<>>),
         regions |-> GetDefault(document, "regions", <<>>)],
     raw_data |-> document]

-----------------------------------------------------------------------------
(* The consumers of stream() *)

Entries == {"main", "example", "collect"}

\* where the program goes when the loop is left: the usage block of
\* streamer.py closes the streamer in a finally clause, main() and the
\* list() consumer have none
AfterLoop(e) == IF e = "example" THEN "finally" ELSE "exit"

StreamInit ==
    /\ entry \in Entries
    /\ IF entry = "collect"
          THEN /\ batch_size \in 1..MaxBatchLen
               /\ max_retries \in 0..MaxRetriesArg
          ELSE /\ batch_size = DefaultBatchSize
               /\ max_retries = DefaultMaxRetries
    /\ pc = "pull"
    /\ retry_count = 0
    /\ documents = <<>>
    /\ idx = 0
    /\ data = None
    /\ pullLog = <<>>
    /\ sleeps = <<>>
    /\ yielded = <<>>
    /\ published = <<>>
    /\ closeCalls = 0
    /\ gen = "running"
    /\ outcome = "running"

-----------------------------------------------------------------------------
(* FactivaStreamer.stream *)

\* Backoff with the delay doubling instead of growing by 5
Backoff_Exponential(k) == BackoffUnit * 2 ^ (k - 1)

\* the argument of time.sleep after the k-th failure in a row
Backoff(k) == BackoffUnit * k

\* Handler raising as soon as retry_count reaches max_retries
Handler_OffByOne ==
    /\ retry_count' = retry_count + 1
    /\ IF retry_count + 1 >= max_retries
          THEN /\ gen' = "raised"
               /\ outcome' = "exhausted"
               /\ pc' = AfterLoop(entry)
               /\ sleeps' = sleeps
          ELSE /\ sleeps' = Append(sleeps, Backoff(retry_count + 1))
               /\ pc' = "pull"
               /\ UNCHANGED <<gen, outcome>>

\* the except clause: count the failure, raise when the retries are used up,
\* otherwise sleep 5 * retry_count and go round the loop again
Handler ==
    /\ retry_count' = retry_count + 1
    /\ IF retry_count + 1 > max_retries
          THEN /\ gen' = "raised"
               /\ outcome' = "exhausted"
               /\ pc' = AfterLoop(entry)
               /\ sleeps' = sleeps
          ELSE /\ sleeps' = Append(sleeps, Backoff(retry_count + 1))
               /\ pc' = "pull"
               /\ UNCHANGED <<gen, outcome>>

\* the record of the attempt in progress, once it is over
MarkLast(log, how) == [log EXCEPT ![Len(log)].status = how]

\* the arguments of the get_documents call
PullArgs == [stream_id |-> STREAM_ID, batch_size |-> batch_size]

\* get_documents raises
PullFail ==
    /\ pc = "pull"
    /\ Len(pullLog) < MaxPulls
    /\ pullLog' = Append(pullLog, [args |-> PullArgs, len |-> -1,
                                   docs |-> <<>>, status |-> "failed"])
    /\ Handler
    /\ UNCHANGED <<entry, batch_size, max_retries, documents, idx, data,
                   yielded, published, closeCalls>>
    /\ UNCHANGED <<procVars, objVars, unitVars, invVars>>

\* PullOk with retry_count reset as soon as get_documents has returned
PullOk_ResetsCount ==
    /\ pc = "pull"
    /\ Len(pullLog) < MaxPulls
    /\ Cardinality({p \in 1..Len(pullLog) : pullLog[p].len >= 0}) < MaxBatches
    /\ \E b \in Batches(batch_size) :
          /\ documents' = b
          /\ pullLog' = Append(pullLog, [args |-> PullArgs, len |-> Len(b),
                                       docs |-> b, status |-> "iterating"])
    /\ idx' = 0
    /\ retry_count' = 0
    /\ pc' = "iter"
    /\ UNCHANGED <<entry, batch_size, max_retries, data, sleeps,
                   yielded, published, closeCalls, gen, outcome>>
    /\ UNCHANGED <<procVars, objVars, unitVars, invVars>>

\* get_documents returns a batch
PullOk ==
    /\ pc = "pull"
    /\ Len(pullLog) < MaxPulls
    /\ Cardinality({p \in 1..Len(pullLog) : pullLog[p].len >= 0}) < MaxBatches
    /\ \E b \in Batches(batch_size) :
          /\ documents' = b
          /\ pullLog' = Append(pullLog, [args |-> PullArgs, len |-> Len(b),
                                       docs |-> b, status |-> "iterating"])
    /\ idx' = 0
    /\ pc' = "iter"
    /\ UNCHANGED <<entry, batch_size, max_retries, retry_count, data, sleeps,
                   yielded, published, closeCalls, gen, outcome>>
    /\ UNCHANGED <<procVars, objVars, unitVars, invVars>>

\* Yield taking the items of the batch from its end
Yield_Reversed ==
    /\ pc = "iter"
    /\ idx < Len(documents)
    /\ data' = _process_document(documents[Len(documents) - idx])
    /\ idx' = idx + 1
    /\ yielded' = Append(yielded, <<Len(pullLog), Len(documents) - idx>>)
    /\ pc' = "consume"
    /\ UNCHANGED <<entry, batch_size, max_retries, retry_count, documents,
                   pullLog, sleeps, published, closeCalls, gen, outcome>>
    /\ UNCHANGED <<procVars, objVars, unitVars, invVars>>

\* for doc in documents: yield self._process_document(doc)
Yield ==
    /\ pc = "iter"
    /\ idx < Len(documents)
    /\ data' = _process_document(documents[idx + 1])
    /\ idx' = idx + 1
    /\ yielded' = Append(yielded, <<Len(pullLog), idx + 1>>)
    /\ pc' = "consume"
    /\ UNCHANGED <<entry, batch_size, max_retries, retry_count, documents,
                   pullLog, sleeps, published, closeCalls, gen, outcome>>
    /\ UNCHANGED <<procVars, objVars, unitVars, invVars>>

\* IterFail with the loop going on with the rest of the batch after the
\* backoff
IterFail_ResumesBatch ==
    /\ pc = "iter"
    /\ idx < Len(documents)
    /\ pullLog' = MarkLast(pullLog, "failed")
    /\ retry_count' = retry_count + 1
    /\ IF retry_count + 1 > max_retries
          THEN /\ gen' = "raised"
               /\ outcome' = "exhausted"
               /\ pc' = AfterLoop(entry)
               /\ sleeps' = sleeps
               /\ idx' = idx
          ELSE /\ sleeps' = Append(sleeps, Backoff(retry_count + 1))
               /\ pc' = "iter"
               /\ idx' = idx + 1
               /\ UNCHANGED <<gen, outcome>>
    /\ UNCHANGED <<entry, batch_size, max_retries, documents, data,
                   yielded, published, closeCalls>>
    /\ UNCHANGED <<procVars, objVars, unitVars, invVars>>

\* taking the next item of documents, or normalizing it, raises
IterFail ==
    /\ pc = "iter"
    /\ idx < Len(documents)
    /\ pullLog' = MarkLast(pullLog, "failed")
    /\ Handler
    /\ UNCHANGED <<entry, batch_size, max_retries, documents, idx, data,
                   yielded, published, closeCalls>>
    /\ UNCHANGED <<procVars, objVars, unitVars, invVars>>

\* BatchDone with the generator returning when the batch was empty
BatchDone_ReturnsOnEmpty ==
    /\ pc = "iter"
    /\ idx = Len(documents)
    /\ retry_count' = 0
    /\ pullLog' = MarkLast(pullLog, "done")
    /\ IF documents = <<>>
          THEN /\ gen' = "returned"
               /\ outcome' = "returned"
               /\ pc' = AfterLoop(entry)
          ELSE /\ pc' = "pull"
               /\ UNCHANGED <<gen, outcome>>
    /\ UNCHANGED <<entry, batch_size, max_retries, documents, idx, data,
                   sleeps, yielded, published, closeCalls>>
    /\ UNCHANGED <<procVars, objVars, unitVars, invVars>>

\* the for loop is through: retry_count = 0, and round the while loop
BatchDone ==
    /\ pc = "iter"
    /\ idx = Len(documents)
    /\ retry_count' = 0
    /\ pullLog' = MarkLast(pullLog, "done")
    /\ pc' = "pull"
    /\ UNCHANGED <<entry, batch_size, max_retries, documents, idx, data,
                   sleeps, yielded, published, closeCalls, gen, outcome>>
    /\ UNCHANGED <<procVars, objVars, unitVars, invVars>>

-----------------------------------------------------------------------------
(* The loop bodies of the consumers *)

\* main(): publish_message(data) returns; the usage block prints; list() appends
Consume ==
    /\ pc = "consume"
    /\ published' = IF entry = "main"
                       THEN Append(published, yielded[Len(yielded)])
                       ELSE published
    /\ pc' = "iter"
    /\ UNCHANGED <<entry, batch_size, max_retries, retry_count, documents, idx,
                   data, pullLog, sleeps, yielded, closeCalls, gen,
                   outcome>>
    /\ UNCHANGED <<procVars, objVars, unitVars, invVars>>

\* PublishRaise with main() noting the failure and going on with the next
\* document
PublishRaise_GoesOn ==
    /\ pc = "consume"
    /\ entry = "main"
    /\ outcome' = "publish_error"
    /\ pc' = "iter"
    /\ UNCHANGED <<entry, batch_size, max_retries, retry_count, documents, idx,
                   data, pullLog, sleeps, yielded, published,
                   closeCalls, gen>>
    /\ UNCHANGED <<procVars, objVars, unitVars, invVars>>

\* main(): publish_message(data) raises, and nothing in main() catches it
PublishRaise ==
    /\ pc = "consume"
    /\ entry = "main"
    /\ gen' = "abandoned"
    /\ outcome' = "publish_error"
    /\ pc' = AfterLoop(entry)
    /\ UNCHANGED <<entry, batch_size, max_retries, retry_count, documents, idx,
                   data, pullLog, sleeps, yielded, published,
                   closeCalls>>
    /\ UNCHANGED <<procVars, objVars, unitVars, invVars>>

\* the usage block of streamer.py: KeyboardInterrupt stops the consumer
Interrupt ==
    /\ entry = "example"
    /\ pc \in {"pull", "iter", "consume"}
    /\ gen' = "abandoned"
    /\ outcome' = "interrupted"
    /\ pc' = AfterLoop(entry)
    /\ UNCHANGED <<entry, batch_size, max_retries, retry_count, documents, idx,
                   data, pullLog, sleeps, yielded, published,
                   closeCalls>>
    /\ UNCHANGED <<procVars, objVars, unitVars, invVars>>

\* FactivaStreamer.close, from the finally clause of the usage block
Close ==
    /\ pc = "finally"
    /\ closeCalls' = closeCalls + 1
    /\ pc' = "exit"
    /\ UNCHANGED <<entry, batch_size, max_retries, retry_count, documents, idx,
                   data, pullLog, sleeps, yielded, published, gen,
                   outcome>>
    /\ UNCHANGED <<procVars, objVars, unitVars, invVars>>

StreamNext ==
    \/ PullFail
    \/ PullOk
    \/ Yield
    \/ IterFail
    \/ BatchDone
    \/ Consume
    \/ PublishRaise
    \/ Interrupt
    \/ Close

-----------------------------------------------------------------------------
(* Text.  A text is a sequence of tokens: a token is a word, a bullet "-",
   a "#", a blank " " or a line break.  The Japanese words of the source are
   written in Latin letters. *)

NL == "\n"
SP == " "

\* the section markers and polarity keywords of _analyze_with_openai
MK_TOPICS == "ShuyouTopikku"
MK_SENTIMENT == "KanjouBunseki"
MK_FACTS == "JuuyouNaJijitsu"
MK_FIGURES == "Suuji"
MK_INDUSTRY == "KanrenSuruGyoukai"
MK_COMPANY == "Kigyou"
MK_SUMMARY == "Youyaku"
KW_POSITIVE == "Pojitibu"
KW_NEGATIVE == "Negatibu"

Markers == {MK_TOPICS, MK_SENTIMENT, MK_FACTS, MK_FIGURES, MK_INDUSTRY,
            MK_COMPANY, MK_SUMMARY, KW_POSITIVE, KW_NEGATIVE}

\* the words that have a marker inside them
Compound ==
    [JuuyouNaJijitsuYaSuuji |-> {MK_FACTS, MK_FIGURES},
     KanrenSuruGyoukaiYaKigyou |-> {MK_INDUSTRY, MK_COMPANY},
     KijiNoYouyaku |-> {MK_SUMMARY},
     KigyouA |-> {MK_COMPANY},
     KoreWaTesutoYouyakuDesu |-> {MK_SUMMARY}]

\* sub in word
InWord(sub, word) ==
    \/ sub = word
    \/ word \in DOMAIN Compound /\ sub \in Compound[word]

\* sub in line
In(sub, line) == \E i \in 1..Len(line) : InWord(sub, line[i])

\* str.lower(): the Latin capitals of a word become small letters; a
\* Japanese word has none
Lower(line) == [i \in 1..Len(line) |-> IF line[i] = "POSITIVE" THEN "positive"
                                       ELSE line[i]]

\* str.lstrip(chars)
RECURSIVE LStrip(_, _)
LStrip(line, chars) ==
    IF line # <<>> /\ Head(line) \in chars THEN LStrip(Tail(line), chars)
    ELSE line

\* str.rstrip(chars)
RECURSIVE RStrip(_, _)
RStrip(line, chars) ==
    IF line # <<>> /\ line[Len(line)] \in chars
       THEN RStrip(SubSeq(line, 1, Len(line) - 1), chars)
       ELSE line

\* str.strip(): white space off both ends
Strip(line) == RStrip(LStrip(line, {SP, NL}), {SP, NL})

\* str.startswith(prefix), for a prefix of one character
StartsWith(line, ch) == line # <<>> /\ Head(line) = ch

\* str.split("\n")
RECURSIVE SplitLines(_)
SplitLines(text) ==
    IF \A i \in 1..Len(text) : text[i] # NL THEN <<text>>
    ELSE LET k == CHOOSE i \in 1..Len(text) :
                     text[i] = NL /\ \A j \in 1..(i - 1) : text[j] # NL
         IN <<SubSeq(text, 1, k - 1)>> \o SplitLines(SubSeq(text, k + 1, Len(text)))

\* sep.join(items)
RECURSIVE Join(_, _)
Join(items, sep) ==
    IF items = <<>> THEN <<>>
    ELSE IF Len(items) = 1 THEN items[1]
    ELSE items[1] \o sep \o Join(Tail(items), sep)

\* items[:n]
Take(items, n) == SubSeq(items, 1, Min(n, Len(items)))

-----------------------------------------------------------------------------
(* _analyze_with_openai: the parse of the model's reply *)

TOPICS_KEPT == 3

\* ParseStart with the topics section open from the first line
ParseStart_InTopics ==
    [current_section |-> "topics", topics |-> <<>>, sentiment |-> "neutral",
     facts |-> <<>>, related_entities |-> <<>>, summary |-> <<>>]

ParseStart ==
    [current_section |-> "none", topics |-> <<>>, sentiment |-> "neutral",
     facts |-> <<>>, related_entities |-> <<>>, summary |-> <<>>]

\* ParseLine looking for the negative keyword first
ParseLine_NegativeFirst(st, raw) ==
    LET line == Strip(raw) IN
    IF line = <<>> THEN st
    ELSE IF In(MK_TOPICS, line) THEN [st EXCEPT !.current_section = "topics"]
    ELSE IF In(MK_SENTIMENT, line) THEN
        [st EXCEPT !.current_section = "sentiment",
                   !.sentiment = IF In(KW_NEGATIVE, Lower(line)) THEN "negative"
                                 ELSE IF In(KW_POSITIVE, Lower(line)) THEN "positive"
                                 ELSE "neutral"]
    ELSE IF In(MK_FACTS, line) \/ In(MK_FIGURES, line)
        THEN [st EXCEPT !.current_section = "facts"]
    ELSE IF In(MK_INDUSTRY, line) \/ In(MK_COMPANY, line)
        THEN [st EXCEPT !.current_section = "entities"]
    ELSE IF In(MK_SUMMARY, line) THEN [st EXCEPT !.current_section = "summary"]
    ELSE IF st.current_section = "topics" /\ StartsWith(line, "-")
        THEN [st EXCEPT !.topics = Append(@, LStrip(line, {"-", SP}))]
    ELSE IF st.current_section = "facts" /\ StartsWith(line, "-")
        THEN [st EXCEPT !.facts = Append(@, LStrip(line, {"-", SP}))]
    ELSE IF st.current_section = "entities" /\ StartsWith(line, "-")
        THEN [st EXCEPT !.related_entities = Append(@, LStrip(line, {"-", SP}))]
    ELSE IF st.current_section = "summary" /\ ~StartsWith(line, "#")
        THEN [st EXCEPT !.summary = @ \o line \o <<SP>>]
    ELSE st

\* ParseLine collecting bullets and summary text before it looks for markers
ParseLine_BulletsFirst(st, raw) ==
    LET line == Strip(raw) IN
    IF line = <<>> THEN st
    ELSE IF st.current_section = "topics" /\ StartsWith(line, "-")
        THEN [st EXCEPT !.topics = Append(@, LStrip(line, {"-", SP}))]
    ELSE IF st.current_section = "facts" /\ StartsWith(line, "-")
        THEN [st EXCEPT !.facts = Append(@, LStrip(line, {"-", SP}))]
    ELSE IF st.current_section = "entities" /\ StartsWith(line, "-")
        THEN [st EXCEPT !.related_entities = Append(@, LStrip(line, {"-", SP}))]
    ELSE IF st.current_section = "summary" /\ ~StartsWith(line, "#")
        THEN [st EXCEPT !.summary = @ \o line \o <<SP>>]
    ELSE IF In(MK_TOPICS, line) THEN [st EXCEPT !.current_section = "topics"]
    ELSE IF In(MK_SENTIMENT, line) THEN
        [st EXCEPT !.current_section = "sentiment",
                   !.sentiment = IF In(KW_POSITIVE, Lower(line)) THEN "positive"
                                 ELSE IF In(KW_NEGATIVE, Lower(line)) THEN "negative"
                                 ELSE "neutral"]
    ELSE IF In(MK_FACTS, line) \/ In(MK_FIGURES, line)
        THEN [st EXCEPT !.current_section = "facts"]
    ELSE IF In(MK_INDUSTRY, line) \/ In(MK_COMPANY, line)
        THEN [st EXCEPT !.current_section = "entities"]
    ELSE IF In(MK_SUMMARY, line) THEN [st EXCEPT !.current_section = "summary"]
    ELSE st

\* ParseLine keeping the sentiment when the header has no keyword
ParseLine_StickySentiment(st, raw) ==
    LET line == Strip(raw) IN
    IF line = <<>> THEN st
    ELSE IF In(MK_TOPICS, line) THEN [st EXCEPT !.current_section = "topics"]
    ELSE IF In(MK_SENTIMENT, line) THEN
        [st EXCEPT !.current_section = "sentiment",
                   !.sentiment = IF In(KW_POSITIVE, Lower(line)) THEN "positive"
                                 ELSE IF In(KW_NEGATIVE, Lower(line)) THEN "negative"
                                 ELSE @]
    ELSE IF In(MK_FACTS, line) \/ In(MK_FIGURES, line)
        THEN [st EXCEPT !.current_section = "facts"]
    ELSE IF In(MK_INDUSTRY, line) \/ In(MK_COMPANY, line)
        THEN [st EXCEPT !.current_section = "entities"]
    ELSE IF In(MK_SUMMARY, line) THEN [st EXCEPT !.current_section = "summary"]
    ELSE IF st.current_section = "topics" /\ StartsWith(line, "-")
        THEN [st EXCEPT !.topics = Append(@, LStrip(line, {"-", SP}))]
    ELSE IF st.current_section = "facts" /\ StartsWith(line, "-")
        THEN [st EXCEPT !.facts = Append(@, LStrip(line, {"-", SP}))]
    ELSE IF st.current_section = "entities" /\ StartsWith(line, "-")
        THEN [st EXCEPT !.related_entities = Append(@, LStrip(line, {"-", SP}))]
    ELSE IF st.current_section = "summary" /\ ~StartsWith(line, "#")
        THEN [st EXCEPT !.summary = @ \o line \o <<SP>>]
    ELSE st

\* the body of the for loop, for one line of the reply
ParseLine(st, raw) ==
    LET line == Strip(raw) IN
    IF line = <<>> THEN st
    ELSE IF In(MK_TOPICS, line) THEN [st EXCEPT !.current_section = "topics"]
    ELSE IF In(MK_SENTIMENT, line) THEN
        [st EXCEPT !.current_section = "sentiment",
                   !.sentiment = IF In(KW_POSITIVE, Lower(line)) THEN "positive"
                                 ELSE IF In(KW_NEGATIVE, Lower(line)) THEN "negative"
                                 ELSE "neutral"]
    ELSE IF In(MK_FACTS, line) \/ In(MK_FIGURES, line)
        THEN [st EXCEPT !.current_section = "facts"]
    ELSE IF In(MK_INDUSTRY, line) \/ In(MK_COMPANY, line)
        THEN [st EXCEPT !.current_section = "entities"]
    ELSE IF In(MK_SUMMARY, line) THEN [st EXCEPT !.current_section = "summary"]
    ELSE IF st.current_section = "topics" /\ StartsWith(line, "-")
        THEN [st EXCEPT !.topics = Append(@, LStrip(line, {"-", SP}))]
    ELSE IF st.current_section = "facts" /\ StartsWith(line, "-")
        THEN [st EXCEPT !.facts = Append(@, LStrip(line, {"-", SP}))]
    ELSE IF st.current_section = "entities" /\ StartsWith(line, "-")
        THEN [st EXCEPT !.related_entities = Append(@, LStrip(line, {"-", SP}))]
    ELSE IF st.current_section = "summary" /\ ~StartsWith(line, "#")
        THEN [st EXCEPT !.summary = @ \o line \o <<SP>>]
    ELSE st

RECURSIVE ParseLines(_, _)
ParseLines(st, lines) ==
    IF lines = <<>> THEN st ELSE ParseLines(ParseLine(st, Head(lines)), Tail(lines))

\* ParseReply returning every topic it collected
ParseReply_KeepsAll(analysis_text) ==
    LET st == ParseLines(ParseStart, SplitLines(analysis_text)) IN
    [topics |-> st.topics,
     sentiment |-> st.sentiment,
     facts |-> st.facts,
     related_entities |-> st.related_entities,
     summary |-> Strip(st.summary),
     raw_analysis |-> analysis_text]

\* the analysis _analyze_with_openai returns for the reply analysis_text
ParseReply(analysis_text) ==
    LET st == ParseLines(ParseStart, SplitLines(analysis_text)) IN
    [topics |-> Take(st.topics, TOPICS_KEPT),
     sentiment |-> st.sentiment,
     facts |-> st.facts,
     related_entities |-> st.related_entities,
     summary |-> Strip(st.summary),
     raw_analysis |-> analysis_text]

\* the replies of the model: the reply of the test suite, an empty one, and
\* two without any section marker
ReplyLayout ==
    <<NL, MK_TOPICS, ":", NL, "-", SP, "Bijinesu", NL, "-", SP, "Tekunorojii", NL,
      "-", SP, "Keizai", NL,
      NL, MK_SENTIMENT, ":", SP, KW_POSITIVE, NL,
      NL, "JuuyouNaJijitsuYaSuuji", ":", NL, "-", SP, "Jijitsu1", NL,
      "-", SP, "Jijitsu2", NL,
      NL, "KanrenSuruGyoukaiYaKigyou", ":", NL, "-", SP, "KigyouA", NL,
      "-", SP, "GyoukaiB", NL,
      NL, "KijiNoYouyaku", ":", NL, "KoreWaTesutoYouyakuDesu", NL>>

\* a reply with bullets, a line of text and a "#" line, but no section marker
ReplyNoHeader ==
    <<"-", SP, "Bijinesu", NL, "HonbunDesu", NL,
      "#", SP, "Midashi", NL>>

\* a reply of blanks and line breaks
ReplyBlank == <<SP, NL, SP>>

\* a reply whose sentiment header has the negative keyword
ReplyNegative == <<MK_SENTIMENT, ":", SP, KW_NEGATIVE, NL>>

\* a reply whose sentiment header has neither keyword
ReplyUnrecognised == <<MK_SENTIMENT, ":", SP, "Fumei", NL>>

ModelTexts ==
    {ReplyLayout, <<>>, ReplyNoHeader, ReplyBlank, ReplyNegative,
     ReplyUnrecognised}

\* the lines generated texts are made of
LinePool ==
    {<<MK_TOPICS, ":">>,
     <<MK_SENTIMENT, ":", SP, KW_POSITIVE>>,
     <<MK_SENTIMENT, ":", SP, KW_NEGATIVE>>,
     <<MK_SENTIMENT, ":", SP, KW_NEGATIVE, "/", KW_POSITIVE>>,
     <<MK_SENTIMENT, ":", SP, "Nyuutoraru">>,
     <<"JuuyouNaJijitsuYaSuuji", ":">>,
     <<"KanrenSuruGyoukaiYaKigyou", ":">>,
     <<"KijiNoYouyaku", ":">>,
     <<"-", SP, "Bijinesu">>,
     <<SP, "-", SP, "KigyouA", SP>>,
     <<"HonbunDesu">>,
     <<"#", SP, "Midashi">>}

\* the sequences of at most n lines of the pool
RECURSIVE LineSeqs(_)
LineSeqs(n) ==
    IF n = 0 THEN {<<>>}
    ELSE LET shorter == LineSeqs(n - 1)
         IN shorter \cup {Append(ls, l) : ls \in {x \in shorter : Len(x) = n - 1},
                                          l \in LinePool}

\* the texts of at most MaxLines lines of the pool
GeneratedTexts == {Join(ls, <<NL>>) : ls \in LineSeqs(MaxLines)}

BulletNames ==
    <<"Bijinesu", "Tekunorojii", "Keizai", "Seiji", "Kagaku", "Supootsu">>

\* k bullet lines
RECURSIVE Bullets(_)
Bullets(k) ==
    IF k = 0 THEN <<>>
    ELSE Bullets(k - 1) \o <<NL, "-", SP, BulletNames[k]>>

\* the topics header followed by k bullet lines
TopicsText(k) == <<MK_TOPICS, ":">> \o Bullets(k)

ParseTexts ==
    GeneratedTexts \cup ModelTexts
        \cup {TopicsText(k) : k \in 0..Min(MaxBullets, Len(BulletNames))}

\* what the model call does: it returns a text or raises
ModelReplies ==
    {[kind |-> "text", text |-> t] : t \in ModelTexts}
        \cup {[kind |-> "raise", error |-> "API error"]}

-----------------------------------------------------------------------------
(* analyze_content *)

\* Python values of more than one type
PyNone == [type |-> "NoneType"]
PyStr(s) == [type |-> "str", value |-> s]
PyDict(d) == [type |-> "dict", value |-> d]

DEFAULT_MODEL == "gpt-3.5-turbo"

\* the prompt: the fixed template with title, source, date and body put in
Prompt(d) ==
    [template |-> "analysis-prompt",
     title |-> GetDefault(d, "title", ""),
     source |-> GetDefault(d, "source", ""),
     publication_date |-> GetDefault(d, "publication_date", ""),
     body |-> GetDefault(d, "body", "")]

_mock_analysis_result(d) ==
    [topics |-> <<<<"Bijinesu">>, <<"Tekunorojii">>, <<"Keizai">>>>,
     sentiment |-> "neutral",
     facts |-> <<<<"mock-fact-1">>, <<"mock-fact-2">>>>,
     related_entities |-> <<<<"MokkuKigyou">>, <<"TesutoSangyou">>>>,
     summary |-> <<"mock-summary-of", GetDefault(d, "title", "")>>,
     is_mock |-> TRUE]

\* ErrorAnalysis with a sentiment of its own
ErrorAnalysis_UnknownSentiment(e, title) ==
    [error |-> e,
     topics |-> <<>>,
     sentiment |-> "unknown",
     facts |-> <<>>,
     related_entities |-> <<>>,
     summary |-> <<"analysis-error", title>>]

\* the analysis of the except clause
ErrorAnalysis(e, title) ==
    [error |-> e,
     topics |-> <<>>,
     sentiment |-> "neutral",
     facts |-> <<>>,
     related_entities |-> <<>>,
     summary |-> <<"analysis-error", title>>]

\* analyze_content letting the failure of the model call through
analyze_content_Reraises(d, key, reply) ==
    IF d.type # "dict"
       THEN [raised |-> TRUE, value |-> "AttributeError", contacted |-> FALSE]
    ELSE IF key
       THEN [raised |-> reply.kind = "raise",
             value |-> IF reply.kind = "raise" THEN reply.error
                       ELSE ParseReply(reply.text),
             contacted |-> TRUE]
       ELSE [raised |-> FALSE, value |-> _mock_analysis_result(d.value),
             contacted |-> FALSE]

\* analyze_content calling the model whether or not the credential is there
analyze_content_AlwaysContacts(d, key, reply) ==
    IF d.type # "dict"
       THEN [raised |-> TRUE, value |-> "AttributeError", contacted |-> FALSE]
       ELSE [raised |-> FALSE,
             value |-> IF reply.kind = "raise"
                          THEN ErrorAnalysis(reply.error,
                                             GetDefault(d.value, "title", ""))
                          ELSE ParseReply(reply.text),
             contacted |-> TRUE]

\* analyze_content returning the analysis with the document under raw_data
analyze_content_AttachesDocument(d, key, reply) ==
    IF d.type # "dict"
       THEN [raised |-> TRUE, value |-> "AttributeError", contacted |-> FALSE]
    ELSE IF key
       THEN [raised |-> FALSE,
             value |-> [raw_data |-> d.value]
                          @@ (IF reply.kind = "raise"
                                 THEN ErrorAnalysis(reply.error,
                                                    GetDefault(d.value, "title", ""))
                                 ELSE ParseReply(reply.text)),
             contacted |-> TRUE]
       ELSE [raised |-> FALSE,
             value |-> [raw_data |-> d.value] @@ _mock_analysis_result(d.value),
             contacted |-> FALSE]

\* analyze_content(data) when the environment has or lacks the model
\* credential and the model, if called, answers with reply:
\* [raised, value, contacted]
analyze_content(d, key, reply) ==
    IF d.type # "dict"
       THEN [raised |-> TRUE, value |-> "AttributeError", contacted |-> FALSE]
    ELSE IF key
       THEN [raised |-> FALSE,
             value |-> IF reply.kind = "raise"
                          THEN ErrorAnalysis(reply.error,
                                             GetDefault(d.value, "title", ""))
                          ELSE ParseReply(reply.text),
             contacted |-> TRUE]
       ELSE [raised |-> FALSE, value |-> _mock_analysis_result(d.value),
             contacted |-> FALSE]

-----------------------------------------------------------------------------
(* send_notification and _create_embed *)

EmptyDict == <<>>

\* json.dumps(value)
JsonDumps(value) == [json |-> value]

COLOR_BLUE == 39423
COLOR_GREEN == 65280
COLOR_RED == 16711680
FACTS_SHOWN == 3
HTTP_NO_CONTENT == 204

\* EmbedFields showing every fact
EmbedFields_AllFacts(d) ==
    LET topics == GetDefault(d, "topics", <<>>)
        sentiment == GetDefault(d, "sentiment", "neutral")
        facts == GetDefault(d, "facts", <<>>)
        entities == GetDefault(d, "related_entities", <<>>)
    IN (IF topics # <<>>
           THEN <<[name |-> "Topikku", value |-> Join(topics, <<",", SP>>),
                   inline |-> TRUE]>>
           ELSE <<>>)
       \o <<[name |-> "KanjouBunseki",
             value |-> IF sentiment = "positive" THEN <<KW_POSITIVE, SP, "chart-up">>
                       ELSE IF sentiment = "negative"
                               THEN <<KW_NEGATIVE, SP, "chart-down">>
                       ELSE <<"Nyuutoraru">>,
             inline |-> TRUE]>>
       \o (IF facts # <<>>
              THEN <<[name |-> "JuuyouNaJijitsu",
                      value |-> Join([i \in 1..Len(facts) |->
                                         <<"bullet", SP>> \o facts[i]], <<NL>>),
                      inline |-> FALSE]>>
              ELSE <<>>)
       \o (IF entities # <<>>
              THEN <<[name |-> "KanrenEntiti", value |-> Join(entities, <<",", SP>>),
                      inline |-> FALSE]>>
              ELSE <<>>)

\* the "fields" of the embed
EmbedFields(d) ==
    LET topics == GetDefault(d, "topics", <<>>)
        sentiment == GetDefault(d, "sentiment", "neutral")
        facts == GetDefault(d, "facts", <<>>)
        entities == GetDefault(d, "related_entities", <<>>)
    IN (IF topics # <<>>
           THEN <<[name |-> "Topikku", value |-> Join(topics, <<",", SP>>),
                   inline |-> TRUE]>>
           ELSE <<>>)
       \o <<[name |-> "KanjouBunseki",
             value |-> IF sentiment = "positive" THEN <<KW_POSITIVE, SP, "chart-up">>
                       ELSE IF sentiment = "negative"
                               THEN <<KW_NEGATIVE, SP, "chart-down">>
                       ELSE <<"Nyuutoraru">>,
             inline |-> TRUE]>>
       \o (IF facts # <<>>
              THEN <<[name |-> "JuuyouNaJijitsu",
                      value |-> Join([i \in 1..Len(Take(facts, FACTS_SHOWN)) |->
                                         <<"bullet", SP>> \o facts[i]], <<NL>>),
                      inline |-> FALSE]>>
              ELSE <<>>)
       \o (IF entities # <<>>
              THEN <<[name |-> "KanrenEntiti", value |-> Join(entities, <<",", SP>>),
                      inline |-> FALSE]>>
              ELSE <<>>)

_create_embed(d) ==
    LET original_data == GetDefault(d, "raw_data", EmptyDict)
        sentiment == GetDefault(d, "sentiment", "neutral")
    IN [title |-> Or(Get(original_data, "title"),
                     GetDefault(d, "title", "TaitoruNashi")),
        description |-> GetDefault(d, "summary", <<"YouyakuNashi">>),
        url |-> Or(Get(original_data, "url"), GetDefault(d, "url", "")),
        color |-> IF sentiment = "positive" THEN COLOR_GREEN
                  ELSE IF sentiment = "negative" THEN COLOR_RED
                  ELSE COLOR_BLUE,
        timestamp |-> Or(Get(original_data, "publication_date"),
                         GetDefault(d, "publication_date", "")),
        footer |-> [text |-> <<"Source:", SP,
                               Or(Get(original_data, "source"),
                                  GetDefault(d, "source", "Fumei"))>>],
        fields |-> EmbedFields(d)]

\* what the POST does: it answers with a status code or raises
PostResponses ==
    {[kind |-> "status", status_code |-> HTTP_NO_CONTENT],
     [kind |-> "status", status_code |-> 200],
     [kind |-> "status", status_code |-> 500],
     [kind |-> "raise"]}

\* send_notification without its try/except
send_notification_NoTry(d, url, resp) ==
    IF ~url THEN [raised |-> FALSE, value |-> FALSE, posted |-> <<>>]
    ELSE IF d.type # "dict"
       THEN [raised |-> TRUE, value |-> FALSE, posted |-> <<>>]
    ELSE LET payload == JsonDumps([embeds |-> <<_create_embed(d.value)>>])
         IN [raised |-> resp.kind = "raise",
             value |-> resp.kind = "status" /\ resp.status_code = HTTP_NO_CONTENT,
             posted |-> <<payload>>]

\* send_notification(data) when a webhook URL is or is not configured and the
\* POST, if made, ends as resp: [raised, value, posted].  Building the embed
\* of data that is no mapping raises inside the try, before the POST.
send_notification(d, url, resp) ==
    IF ~url THEN [raised |-> FALSE, value |-> FALSE, posted |-> <<>>]
    ELSE IF d.type # "dict"
       THEN [raised |-> FALSE, value |-> FALSE, posted |-> <<>>]
    ELSE LET payload == JsonDumps([embeds |-> <<_create_embed(d.value)>>])
         IN [raised |-> FALSE,
             value |-> resp.kind = "status" /\ resp.status_code = HTTP_NO_CONTENT,
             posted |-> <<payload>>]

-----------------------------------------------------------------------------
(* store_data and _prepare_row *)

\* datetime.utcnow().isoformat()
Clock == {"2023-01-01T00:00:00", "2023-01-01T00:00:01"}

\* _get_table_schema(): the fields of the table, in the order declared
_get_table_schema ==
    <<[name |-> "id", field_type |-> "STRING", mode |-> "REQUIRED"],
      [name |-> "title", field_type |-> "STRING", mode |-> "NULLABLE"],
      [name |-> "body", field_type |-> "STRING", mode |-> "NULLABLE"],
      [name |-> "source", field_type |-> "STRING", mode |-> "NULLABLE"],
      [name |-> "publication_date", field_type |-> "TIMESTAMP",
       mode |-> "NULLABLE"],
      [name |-> "url", field_type |-> "STRING", mode |-> "NULLABLE"],
      [name |-> "topics", field_type |-> "STRING", mode |-> "REPEATED"],
      [name |-> "sentiment", field_type |-> "STRING", mode |-> "NULLABLE"],
      [name |-> "summary", field_type |-> "STRING", mode |-> "NULLABLE"],
      [name |-> "facts", field_type |-> "STRING", mode |-> "REPEATED"],
      [name |-> "related_entities", field_type |-> "STRING",
       mode |-> "REPEATED"],
      [name |-> "metadata", field_type |-> "JSON", mode |-> "NULLABLE"],
      [name |-> "processed_at", field_type |-> "TIMESTAMP",
       mode |-> "NULLABLE"]>>

\* _prepare_row handing the metadata over as it is, and no url
_prepare_row_RawMetadata(article_data, analysis_data, now) ==
    LET given == GetDefault(article_data, "metadata", EmptyDict)
        metadata == IF DOMAIN given = {} /\ "raw_data" \in DOMAIN article_data
                       THEN article_data.raw_data
                       ELSE given
    IN [id |-> GetDefault(article_data, "id", ""),
        title |-> GetDefault(article_data, "title", ""),
        body |-> GetDefault(article_data, "body", ""),
        source |-> GetDefault(article_data, "source", ""),
        publication_date |-> GetDefault(article_data, "publication_date", ""),
        topics |-> GetDefault(analysis_data, "topics", <<>>),
        sentiment |-> GetDefault(analysis_data, "sentiment", "neutral"),
        summary |-> GetDefault(analysis_data, "summary", <<>>),
        facts |-> GetDefault(analysis_data, "facts", <<>>),
        related_entities |-> GetDefault(analysis_data, "related_entities", <<>>),
        metadata |-> metadata,
        processed_at |-> now]

_prepare_row(article_data, analysis_data, now) ==
    LET given == GetDefault(article_data, "metadata", EmptyDict)
        metadata == IF DOMAIN given = {} /\ "raw_data" \in DOMAIN article_data
                       THEN article_data.raw_data
                       ELSE given
    IN [id |-> GetDefault(article_data, "id", ""),
        title |-> GetDefault(article_data, "title", ""),
        body |-> GetDefault(article_data, "body", ""),
        source |-> GetDefault(article_data, "source", ""),
        publication_date |-> GetDefault(article_data, "publication_date", ""),
        url |-> GetDefault(article_data, "url", ""),
        topics |-> GetDefault(analysis_data, "topics", <<>>),
        sentiment |-> GetDefault(analysis_data, "sentiment", "neutral"),
        summary |-> GetDefault(analysis_data, "summary", <<>>),
        facts |-> GetDefault(analysis_data, "facts", <<>>),
        related_entities |-> GetDefault(analysis_data, "related_entities", <<>>),
        metadata |-> JsonDumps(metadata),
        processed_at |-> now]

\* what the warehouse does: the client cannot be made, the insert reports no
\* errors, reports errors, or raises
InsertOutcomes == {"client_raise", "no_errors", "errors", "insert_raise"}

\* store_data(article_data, analysis_data) when a project id is or is not
\* configured, the bigquery import did or did not succeed, and the warehouse
\* behaves as ins: [raised, value, inserted]
store_data(article, analysis, project, imported, ins, now) ==
    IF ~project THEN [raised |-> FALSE, value |-> FALSE, inserted |-> <<>>]
    ELSE IF ~imported
       \* NameError: _log_data builds the row outside any try
       THEN [raised |-> article.type # "dict", value |-> FALSE, inserted |-> <<>>]
    ELSE IF ins = "client_raise" \/ article.type # "dict"
       THEN [raised |-> FALSE, value |-> FALSE, inserted |-> <<>>]
    ELSE [raised |-> FALSE, value |-> ins = "no_errors",
          inserted |-> <<_prepare_row(article.value, analysis, now)>>]

-----------------------------------------------------------------------------
(* process_pubsub_message *)

\* the documents that reach the function: normalized documents of the
\* streamer (one of a raw document with no identifier), and the bare
\* document of the test suite
Articles ==
    {_process_document(RawPrimary),
     _process_document(RawNoId),
     [id |-> "test-doc", title |-> "Test Title", body |-> "Test Body"]}

BASE64_DATA == "eyJpZCI6InRlc3QtZG9jIiwidGl0bGUiOiJUZXN0IFRpdGxlIn0="

\* the events: data a mapping, data a base64 string, no data
Events ==
    {[data |-> PyDict(a), attributes |-> EmptyDict] : a \in Articles}
        \cup {[data |-> PyStr(BASE64_DATA), attributes |-> EmptyDict],
              [attributes |-> EmptyDict]}

\* event.get("data")
EventData(e) == IF "data" \in DOMAIN e THEN e.data ELSE PyNone

ProcInit ==
    /\ event \in Events
    /\ api_key \in BOOLEAN
    /\ webhook_url \in BOOLEAN
    /\ project_id \in BOOLEAN
    /\ bigquery_imported \in BOOLEAN
    /\ ppc = "received"
    /\ pubsub_message = PyNone
    /\ analysis_result = PyNone
    /\ calls = <<>>
    /\ modelCalls = <<>>
    /\ posts = <<>>
    /\ inserts = <<>>
    /\ result = PyNone

\* Analyze going on to the sinks when analyze_content raised
Analyze_GoesOnAfterRaise ==
    /\ ppc = "received"
    /\ pubsub_message' = EventData(event)
    /\ \E reply \in ModelReplies :
          LET r == analyze_content(EventData(event), api_key, reply) IN
          /\ calls' = Append(calls, [fn |-> "analyze_content",
                                     data |-> EventData(event),
                                     raised |-> r.raised])
          /\ modelCalls' = modelCalls
          /\ ppc' = "analyzed"
          /\ analysis_result' = IF r.raised THEN ErrorAnalysis(r.value, "")
                                            ELSE r.value
          /\ UNCHANGED result
    /\ UNCHANGED <<event, api_key, webhook_url, project_id, bigquery_imported,
                   posts, inserts>>
    /\ UNCHANGED <<streamVars, objVars, unitVars, invVars>>

\* pubsub_message = event.get("data"); analysis_result = analyze_content(...)
Analyze ==
    /\ ppc = "received"
    /\ pubsub_message' = EventData(event)
    /\ \E reply \in ModelReplies :
          LET r == analyze_content(EventData(event), api_key, reply) IN
          /\ calls' = Append(calls, [fn |-> "analyze_content",
                                     data |-> EventData(event),
                                     raised |-> r.raised])
          /\ modelCalls' = IF r.contacted
                              THEN Append(modelCalls,
                                          [model |-> DEFAULT_MODEL,
                                           prompt |-> Prompt(EventData(event).value),
                                           reply |-> reply])
                              ELSE modelCalls
          /\ IF r.raised
                THEN /\ ppc' = "raised"
                     /\ result' = [type |-> "exception", value |-> r.value]
                     /\ UNCHANGED analysis_result
                ELSE /\ ppc' = "analyzed"
                     /\ analysis_result' = r.value
                     /\ UNCHANGED result
    /\ UNCHANGED <<event, api_key, webhook_url, project_id, bigquery_imported,
                   posts, inserts>>
    /\ UNCHANGED <<streamVars, objVars, unitVars, invVars>>

\* Notify trying again when the notifier reports failure
Notify_RetryOnFailure ==
    /\ ppc = "analyzed"
    /\ \E resp \in PostResponses :
          LET r == send_notification(PyDict(analysis_result), webhook_url, resp) IN
          /\ calls' = Append(calls, [fn |-> "send_notification",
                                     data |-> analysis_result,
                                     returned |-> r.value])
          /\ posts' = posts \o r.posted
          /\ ppc' = IF r.value \/ Len(calls) >= 2 THEN "notified" ELSE "analyzed"
    /\ UNCHANGED <<event, api_key, webhook_url, project_id, bigquery_imported,
                   pubsub_message, analysis_result, modelCalls, inserts, result>>
    /\ UNCHANGED <<streamVars, objVars, unitVars, invVars>>

\* Notify handing the notifier the document instead of its analysis
Notify_SendsDocument ==
    /\ ppc = "analyzed"
    /\ \E resp \in PostResponses :
          LET r == send_notification(pubsub_message, webhook_url, resp) IN
          /\ calls' = Append(calls, [fn |-> "send_notification",
                                     data |-> pubsub_message.value,
                                     returned |-> r.value])
          /\ posts' = posts \o r.posted
    /\ ppc' = "notified"
    /\ UNCHANGED <<event, api_key, webhook_url, project_id, bigquery_imported,
                   pubsub_message, analysis_result, modelCalls, inserts, result>>
    /\ UNCHANGED <<streamVars, objVars, unitVars, invVars>>

\* Notify with a notifier that writes its outcome into the analysis
Notify_AnnotatesAnalysis ==
    /\ ppc = "analyzed"
    /\ \E resp \in PostResponses :
          LET r == send_notification(PyDict(analysis_result), webhook_url, resp) IN
          /\ calls' = Append(calls, [fn |-> "send_notification",
                                     data |-> analysis_result,
                                     returned |-> r.value])
          /\ posts' = posts \o r.posted
          /\ analysis_result' = [notified |-> r.value] @@ analysis_result
    /\ ppc' = "notified"
    /\ UNCHANGED <<event, api_key, webhook_url, project_id, bigquery_imported,
                   pubsub_message, modelCalls, inserts, result>>
    /\ UNCHANGED <<streamVars, objVars, unitVars, invVars>>

\* send_notification(analysis_result)
Notify ==
    /\ ppc = "analyzed"
    /\ \E resp \in PostResponses :
          LET r == send_notification(PyDict(analysis_result), webhook_url, resp) IN
          /\ calls' = Append(calls, [fn |-> "send_notification",
                                     data |-> analysis_result,
                                     returned |-> r.value])
          /\ posts' = posts \o r.posted
    /\ ppc' = "notified"
    /\ UNCHANGED <<event, api_key, webhook_url, project_id, bigquery_imported,
                   pubsub_message, analysis_result, modelCalls, inserts, result>>
    /\ UNCHANGED <<streamVars, objVars, unitVars, invVars>>

\* Store made only when the notification went through
Store_OnlyIfNotified ==
    /\ ppc = "notified"
    /\ calls[Len(calls)].returned
    /\ \E ins \in InsertOutcomes, now \in Clock :
          LET r == store_data(pubsub_message, analysis_result, project_id,
                              bigquery_imported, ins, now) IN
          /\ calls' = Append(calls, [fn |-> "store_data",
                                     article_data |-> pubsub_message,
                                     analysis_data |-> analysis_result,
                                     raised |-> r.raised,
                                     returned |-> r.value])
          /\ inserts' = inserts \o r.inserted
          /\ ppc' = "stored"
          /\ UNCHANGED result
    /\ UNCHANGED <<event, api_key, webhook_url, project_id, bigquery_imported,
                   pubsub_message, analysis_result, modelCalls, posts>>
    /\ UNCHANGED <<streamVars, objVars, unitVars, invVars>>

\* store_data(pubsub_message, analysis_result)
Store ==
    /\ ppc = "notified"
    /\ \E ins \in InsertOutcomes, now \in Clock :
          LET r == store_data(pubsub_message, analysis_result, project_id,
                              bigquery_imported, ins, now) IN
          /\ calls' = Append(calls, [fn |-> "store_data",
                                     article_data |-> pubsub_message,
                                     analysis_data |-> analysis_result,
                                     raised |-> r.raised,
                                     returned |-> r.value])
          /\ inserts' = inserts \o r.inserted
          /\ IF r.raised
                THEN /\ ppc' = "raised"
                     /\ result' = [type |-> "exception", value |-> "AttributeError"]
                ELSE /\ ppc' = "stored"
                     /\ UNCHANGED result
    /\ UNCHANGED <<event, api_key, webhook_url, project_id, bigquery_imported,
                   pubsub_message, analysis_result, modelCalls, posts>>
    /\ UNCHANGED <<streamVars, objVars, unitVars, invVars>>

\* Return handing back what the sinks reported
Return_ReportsSinks ==
    /\ ppc = "stored"
    /\ result' = [type |-> "dict", notifySucceeded |-> calls[2].returned,
                  storeSucceeded |-> calls[3].returned]
    /\ ppc' = "done"
    /\ UNCHANGED <<event, api_key, webhook_url, project_id, bigquery_imported,
                   pubsub_message, analysis_result, calls, modelCalls, posts,
                   inserts>>
    /\ UNCHANGED <<streamVars, objVars, unitVars, invVars>>

\* return "OK"
Return ==
    /\ ppc = "stored"
    /\ result' = PyStr("OK")
    /\ ppc' = "done"
    /\ UNCHANGED <<event, api_key, webhook_url, project_id, bigquery_imported,
                   pubsub_message, analysis_result, calls, modelCalls, posts,
                   inserts>>
    /\ UNCHANGED <<streamVars, objVars, unitVars, invVars>>

ProcNext ==
    \/ Analyze
    \/ Notify
    \/ Store
    \/ Return

-----------------------------------------------------------------------------
(* The FactivaStreamer object: __init__, _process_document, close *)

CredentialFields ==
    {"user_id", "password", "client_id", "client_secret", "stream_id"}

\* the environment variable read for each constructor parameter
EnvName ==
    [user_id |-> "FACTIVA_USER_ID", password |-> "FACTIVA_PASSWORD",
     client_id |-> "FACTIVA_CLIENT_ID",
     client_secret |-> "FACTIVA_CLIENT_SECRET",
     stream_id |-> "FACTIVA_STREAM_ID"]

\* the environment of the test suite
FullEnv ==
    [FACTIVA_USER_ID |-> "test_user", FACTIVA_PASSWORD |-> "test_password",
     FACTIVA_CLIENT_ID |-> "test_client_id",
     FACTIVA_CLIENT_SECRET |-> "test_client_secret",
     FACTIVA_STREAM_ID |-> "test_stream_id"]

\* the environment without the variable v
Without(env, v) == [k \in DOMAIN env \ {v} |-> env[k]]

\* the environments: complete, one variable unset, one variable set to the
\* empty string, none of the variables set
Environs ==
    {FullEnv}
        \cup {Without(FullEnv, EnvName[f]) : f \in CredentialFields}
        \cup {[FullEnv EXCEPT ![EnvName[f]] = ""] : f \in CredentialFields}
        \cup {[k \in {"HOME"} |-> "/root"]}

AllParams ==
    [user_id |-> "param_user", password |-> "param_password",
     client_id |-> "param_client_id",
     client_secret |-> "param_client_secret",
     stream_id |-> "param_stream_id"]

NoParams == [f \in CredentialFields |-> None]

\* the constructor calls: no parameter, every parameter, one parameter
CtorArgs ==
    {NoParams, AllParams}
        \cup {[NoParams EXCEPT ![f] = AllParams[f]] : f \in CredentialFields}

\* self.<f> = <f> or os.environ.get("FACTIVA_...")
Credential(args, env, f) == Or(args[f], Get(env, EnvName[f]))

ObjInit ==
    /\ ctor_args \in CtorArgs
    /\ environ \in Environs
    /\ has_close \in BOOLEAN
    /\ opc = "new"
    /\ streamer = PyNone
    /\ clientInits = <<>>
    /\ closeLog = <<>>
    /\ processedLog = <<>>

\* Construct checking every credential but the stream id
Construct_IgnoresStreamId ==
    /\ opc = "new"
    /\ IF \A f \in CredentialFields \ {"stream_id"} :
             Truthy(Credential(ctor_args, environ, f))
          THEN /\ clientInits' =
                     Append(clientInits,
                            [f \in CredentialFields \ {"stream_id"} |->
                                Credential(ctor_args, environ, f)])
               /\ streamer' =
                     [type |-> "FactivaStreamer",
                      user_id |-> Credential(ctor_args, environ, "user_id"),
                      password |-> Credential(ctor_args, environ, "password"),
                      client_id |-> Credential(ctor_args, environ, "client_id"),
                      client_secret |->
                          Credential(ctor_args, environ, "client_secret"),
                      stream_id |-> Credential(ctor_args, environ, "stream_id"),
                      client |-> [has_close |-> has_close]]
               /\ opc' = "ready"
          ELSE /\ opc' = "config_error"
               /\ UNCHANGED <<clientInits, streamer>>
    /\ UNCHANGED <<ctor_args, environ, has_close, closeLog, processedLog>>
    /\ UNCHANGED <<streamVars, procVars, unitVars, invVars>>

\* FactivaStreamer.__init__
Construct ==
    /\ opc = "new"
    /\ IF \A f \in CredentialFields : Truthy(Credential(ctor_args, environ, f))
          THEN /\ clientInits' =
                     Append(clientInits,
                            [f \in CredentialFields \ {"stream_id"} |->
                                Credential(ctor_args, environ, f)])
               /\ streamer' =
                     [type |-> "FactivaStreamer",
                      user_id |-> Credential(ctor_args, environ, "user_id"),
                      password |-> Credential(ctor_args, environ, "password"),
                      client_id |-> Credential(ctor_args, environ, "client_id"),
                      client_secret |->
                          Credential(ctor_args, environ, "client_secret"),
                      stream_id |-> Credential(ctor_args, environ, "stream_id"),
                      client |-> [has_close |-> has_close]]
               /\ opc' = "ready"
          ELSE /\ opc' = "config_error"
               /\ UNCHANGED <<clientInits, streamer>>
    /\ UNCHANGED <<ctor_args, environ, has_close, closeLog, processedLog>>
    /\ UNCHANGED <<streamVars, procVars, unitVars, invVars>>

\* a call of streamer._process_document(document)
ProcessDocument ==
    /\ opc \in {"ready", "exhausted"}
    /\ Len(processedLog) < MaxDocs
    /\ \E document \in RawInputs :
          processedLog' = Append(processedLog,
                                 [document |-> document,
                                  processed |-> _process_document(document)])
    /\ UNCHANGED <<ctor_args, environ, has_close, opc, streamer, clientInits,
                   closeLog>>
    /\ UNCHANGED <<streamVars, procVars, unitVars, invVars>>

\* stream() was consumed until it raised on retry exhaustion
StreamEnds ==
    /\ opc = "ready"
    /\ opc' = "exhausted"
    /\ UNCHANGED <<ctor_args, environ, has_close, streamer, clientInits,
                   closeLog, processedLog>>
    /\ UNCHANGED <<streamVars, procVars, unitVars, invVars>>

\* what the client's close does when it is called
ClientCloseOutcomes == {"returns", "raises"}

\* close without its try/except
close_NoTry(client, o) ==
    [client_close |-> IF client.has_close THEN 1 ELSE 0,
     client_raised |-> client.has_close /\ o = "raises",
     raised |-> client.has_close /\ o = "raises",
     logged |-> IF client.has_close /\ o = "raises" THEN "none" ELSE "info"]

\* FactivaStreamer.close(): how often it called client.close, whether it
\* raised, and the level of the line it logged
close(client, o) ==
    [client_close |-> IF client.has_close THEN 1 ELSE 0,
     client_raised |-> client.has_close /\ o = "raises",
     raised |-> FALSE,
     logged |-> IF client.has_close /\ o = "raises" THEN "error" ELSE "info"]

\* a call of streamer.close()
CloseCall ==
    /\ opc \in {"ready", "exhausted"}
    /\ Len(closeLog) < MaxCloses
    /\ \E o \in ClientCloseOutcomes :
          closeLog' = Append(closeLog, close(streamer.client, o))
    /\ UNCHANGED <<ctor_args, environ, has_close, opc, streamer, clientInits,
                   processedLog>>
    /\ UNCHANGED <<streamVars, procVars, unitVars, invVars>>

ObjNext ==
    \/ Construct
    \/ ProcessDocument
    \/ StreamEnds
    \/ CloseCall

-----------------------------------------------------------------------------
(* get_topic_path and publish_message *)

DEFAULT_TOPIC == "factiva-data"

TEST_MESSAGE_ID == "test-message-id"

\* what the bus does with a message: publisher.publish raises, the future's
\* result() raises, or result() returns the message id
PublishOutcomes == {"publish_raises", "result_raises", "published"}

\* get_topic_path(topic_name, project_id) when a project id is or is not
\* configured
get_topic_path(topic_name, project) ==
    IF ~project THEN [raised |-> TRUE, value |-> "ValueError"]
    ELSE [raised |-> FALSE,
          value |-> <<"projects", "test-project", "topics", topic_name>>]

\* publish_message returning as soon as the message is handed to the bus
publish_message_NoWait(d, project, bus) ==
    LET topic_path == get_topic_path(DEFAULT_TOPIC, project) IN
    IF topic_path.raised
       THEN [raised |-> TRUE, value |-> topic_path.value, publishCalls |-> <<>>,
             completed |-> FALSE]
    ELSE LET call == [topic_path |-> topic_path.value, data |-> JsonDumps(d),
                      attributes |-> EmptyDict]
         IN IF bus = "publish_raises"
               THEN [raised |-> TRUE, value |-> "publish error",
                     publishCalls |-> <<call>>, completed |-> FALSE]
               ELSE [raised |-> FALSE, value |-> TEST_MESSAGE_ID,
                     publishCalls |-> <<call>>, completed |-> FALSE]

\* publish_message(data) when a project id is or is not configured and the
\* bus behaves as bus: [raised, value, publishCalls, completed]
publish_message(d, project, bus) ==
    LET topic_path == get_topic_path(DEFAULT_TOPIC, project) IN
    IF topic_path.raised
       THEN [raised |-> TRUE, value |-> topic_path.value, publishCalls |-> <<>>,
             completed |-> FALSE]
    ELSE LET call == [topic_path |-> topic_path.value, data |-> JsonDumps(d),
                      attributes |-> EmptyDict]
         IN IF bus = "publish_raises"
               THEN [raised |-> TRUE, value |-> "publish error",
                     publishCalls |-> <<call>>, completed |-> FALSE]
            ELSE IF bus = "result_raises"
               THEN [raised |-> TRUE, value |-> "result error",
                     publishCalls |-> <<call>>, completed |-> FALSE]
            ELSE [raised |-> FALSE, value |-> TEST_MESSAGE_ID,
                  publishCalls |-> <<call>>, completed |-> TRUE]

-----------------------------------------------------------------------------
(* The functions of the pipeline, each called on its own *)

UnitInit ==
    /\ ucall = [fn |-> "none"]
    /\ uout = PyNone

\* _analyze_with_openai(prompt, model): the model call returns a text, which
\* is parsed, or raises, which is logged and raised again
AnalyzeWithOpenai ==
    /\ ucall.fn = "none"
    /\ \E reply \in {[kind |-> "text", text |-> t] : t \in ParseTexts}
                     \cup {[kind |-> "raise", error |-> "API error"]} :
          /\ ucall' = [fn |-> "_analyze_with_openai", model |-> DEFAULT_MODEL,
                       reply |-> reply]
          /\ uout' = IF reply.kind = "raise"
                        THEN [raised |-> TRUE, value |-> reply.error]
                        ELSE [raised |-> FALSE, value |-> ParseReply(reply.text)]
    /\ UNCHANGED <<streamVars, procVars, objVars, invVars>>

\* the values send_notification is given: analyses, the bare mapping of the
\* test suite, an empty mapping, None
NotifyInputs ==
    {PyDict(ParseReply(ReplyLayout)),
     PyDict(_mock_analysis_result([title |-> "Test Title"])),
     PyDict(ErrorAnalysis("API error", "Test Title")),
     PyDict([title |-> "Test Title"]),
     PyDict(EmptyDict),
     PyNone}

\* send_notification(data)
SendNotification ==
    /\ ucall.fn = "none"
    /\ \E d \in NotifyInputs, url \in BOOLEAN, resp \in PostResponses :
          /\ ucall' = [fn |-> "send_notification", data |-> d, url |-> url,
                       resp |-> resp]
          /\ uout' = send_notification(d, url, resp)
    /\ UNCHANGED <<streamVars, procVars, objVars, invVars>>

\* the articles store_data and _prepare_row are given
StoreArticles == Articles \cup {EmptyDict}

\* the analyses store_data and _prepare_row are given
StoreAnalyses ==
    {ParseReply(ReplyLayout),
     _mock_analysis_result([title |-> "Test Title"]),
     [sentiment |-> "positive"],
     EmptyDict}

\* store_data(article_data, analysis_data)
StoreData ==
    /\ ucall.fn = "none"
    /\ \E article \in {PyDict(a) : a \in StoreArticles} \cup {PyNone},
          analysis \in StoreAnalyses, project \in BOOLEAN,
          imported \in BOOLEAN, ins \in InsertOutcomes, now \in Clock :
          /\ ucall' = [fn |-> "store_data", article_data |-> article,
                       analysis_data |-> analysis, project |-> project,
                       imported |-> imported, ins |-> ins, now |-> now]
          /\ uout' = store_data(article, analysis, project, imported, ins, now)
    /\ UNCHANGED <<streamVars, procVars, objVars, invVars>>

\* _prepare_row(article_data, analysis_data)
PrepareRow ==
    /\ ucall.fn = "none"
    /\ \E article \in StoreArticles, analysis \in StoreAnalyses,
          now \in Clock :
          /\ ucall' = [fn |-> "_prepare_row", article_data |-> article,
                       analysis_data |-> analysis, now |-> now]
          /\ uout' = [raised |-> FALSE,
                      value |-> _prepare_row(article, analysis, now)]
    /\ UNCHANGED <<streamVars, procVars, objVars, invVars>>

\* _get_table_schema()
GetTableSchema ==
    /\ ucall.fn = "none"
    /\ ucall' = [fn |-> "_get_table_schema"]
    /\ uout' = [raised |-> FALSE, value |-> _get_table_schema]
    /\ UNCHANGED <<streamVars, procVars, objVars, invVars>>

\* the documents publish_message is given: what the streamer yields, and the
\* document of the test suite
PublishInputs ==
    {_process_document(d) : d \in RawInputs}
        \cup {[id |-> "test-doc", title |-> "Test Title", body |-> "Test Body"]}

\* publish_message(data)
PublishMessage ==
    /\ ucall.fn = "none"
    /\ \E d \in PublishInputs, project \in BOOLEAN,
          bus \in PublishOutcomes :
          /\ ucall' = [fn |-> "publish_message", data |-> d,
                       project |-> project, outcome |-> bus]
          /\ uout' = publish_message(d, project, bus)
    /\ UNCHANGED <<streamVars, procVars, objVars, invVars>>

\* a list of k items
ItemList(k) == [i \in 1..k |-> <<BulletNames[i]>>]

\* a mapping with key k and one of the values vals, or without the key
OptKey(k, vals) == {EmptyDict} \cup {[x \in {k} |-> v] : v \in vals}

\* the analyses _create_embed is given: every sentiment value or none,
\* topics, facts and entities absent, empty or filled
EmbedInputs ==
    {s @@ t @@ f @@ e :
        s \in OptKey("sentiment", {"positive", "negative", "neutral", "mixed"}),
        t \in OptKey("topics", {ItemList(0), ItemList(2)}),
        f \in OptKey("facts", {ItemList(k) : k \in 0..MaxBullets}),
        e \in OptKey("related_entities", {ItemList(0), ItemList(1)})}

\* _create_embed(data)
CreateEmbed ==
    /\ ucall.fn = "none"
    /\ \E d \in EmbedInputs :
          /\ ucall' = [fn |-> "_create_embed", data |-> d]
          /\ uout' = [raised |-> FALSE, value |-> _create_embed(d)]
    /\ UNCHANGED <<streamVars, procVars, objVars, invVars>>

\* the lines the loop body is given: those of the pool, a line of text with
\* the summary marker inside, a bullet with two markers, a polarity keyword
\* on a line of its own, a line of blanks
ParseLinePool ==
    LinePool \cup {<<"KoreWaTesutoYouyakuDesu">>,
                   <<"-", SP, MK_SUMMARY, SP, MK_TOPICS>>,
                   <<"-", SP, "Suuji", SP, MK_SENTIMENT, ":", SP, KW_NEGATIVE>>,
                   <<KW_NEGATIVE>>,
                   <<"-", SP, KW_POSITIVE>>,
                   <<SP, SP>>}

\* the states the loop is in after fewer than MaxLines lines of the pool
ParseStates == {ParseLines(ParseStart, ls) : ls \in LineSeqs(MaxLines - 1)}

\* one pass of the for loop of _analyze_with_openai
ParseOneLine ==
    /\ ucall.fn = "none"
    /\ \E st \in ParseStates, l \in ParseLinePool :
          /\ ucall' = [fn |-> "for line in lines", st |-> st, line |-> l]
          /\ uout' = [raised |-> FALSE, value |-> ParseLine(st, l)]
    /\ UNCHANGED <<streamVars, procVars, objVars, invVars>>

UnitNext ==
    \/ AnalyzeWithOpenai
    \/ ParseOneLine
    \/ CreateEmbed
    \/ PublishMessage
    \/ SendNotification
    \/ StoreData
    \/ PrepareRow
    \/ GetTableSchema

-----------------------------------------------------------------------------
(* Two invocations of process_pubsub_message running next to each other *)

Invocations == {1, 2}

\* what the collaborators answer in these runs
InvReplies ==
    {[kind |-> "text", text |-> ReplyLayout],
     [kind |-> "text", text |-> ReplyNegative],
     [kind |-> "raise", error |-> "API error"]}

InvResponses ==
    {[kind |-> "status", status_code |-> HTTP_NO_CONTENT],
     [kind |-> "status", status_code |-> 500]}

InvInsertOutcomes == {"no_errors", "errors"}

\* the frame of an invocation that has just been handed event e
NewFrame(e) ==
    [event |-> e, ppc |-> "received", pubsub_message |-> PyNone,
     analysis_result |-> PyNone, answers |-> <<>>, posted |-> <<>>,
     inserted |-> <<>>, result |-> PyNone]

\* no invocations are running next to each other
InvIdle == frames = <<>>

\* the two invocations are handed events with different data; the
\* environment and the module-level settings read from it are those of the
\* process both run in; nothing was sent out yet
InvInit ==
    /\ \E e1 \in Events, e2 \in Events :
          /\ EventData(e1) # EventData(e2)
          /\ frames = [i \in Invocations |-> NewFrame(IF i = 1 THEN e1 ELSE e2)]
    /\ api_key \in BOOLEAN
    /\ webhook_url = TRUE
    /\ project_id = TRUE
    /\ bigquery_imported = TRUE
    /\ event = PyNone
    /\ ppc = "idle"
    /\ pubsub_message = PyNone
    /\ analysis_result = PyNone
    /\ calls = <<>>
    /\ modelCalls = <<>>
    /\ posts = <<>>
    /\ inserts = <<>>
    /\ result = PyNone

\* InvAnalyze keeping the analysis in a module-level variable, which every
\* invocation reads
InvAnalyze_GlobalResult(i) ==
    /\ frames[i].ppc = "received"
    /\ \E reply \in InvReplies :
          LET d == EventData(frames[i].event)
              r == analyze_content(d, api_key, reply)
          IN
          /\ modelCalls' = IF r.contacted
                              THEN Append(modelCalls,
                                          [model |-> DEFAULT_MODEL,
                                           prompt |-> Prompt(d.value),
                                           reply |-> reply])
                              ELSE modelCalls
          /\ frames' =
                [j \in Invocations |->
                    IF j = i
                       THEN IF r.raised
                               THEN [frames[i] EXCEPT
                                        !.pubsub_message = d,
                                        !.ppc = "raised",
                                        !.result = [type |-> "exception",
                                                    value |-> r.value]]
                               ELSE [frames[i] EXCEPT
                                        !.pubsub_message = d,
                                        !.ppc = "analyzed",
                                        !.analysis_result = r.value,
                                        !.answers = Append(@, reply)]
                    ELSE IF r.raised THEN frames[j]
                    ELSE [frames[j] EXCEPT !.analysis_result = r.value]]
    /\ UNCHANGED <<event, api_key, webhook_url, project_id, bigquery_imported,
                   ppc, pubsub_message, analysis_result, calls, posts, inserts,
                   result>>
    /\ UNCHANGED <<streamVars, objVars, unitVars>>

\* invocation i: pubsub_message = event.get("data");
\* analysis_result = analyze_content(pubsub_message)
InvAnalyze(i) ==
    /\ frames[i].ppc = "received"
    /\ \E reply \in InvReplies :
          LET d == EventData(frames[i].event)
              r == analyze_content(d, api_key, reply)
          IN
          /\ modelCalls' = IF r.contacted
                              THEN Append(modelCalls,
                                          [model |-> DEFAULT_MODEL,
                                           prompt |-> Prompt(d.value),
                                           reply |-> reply])
                              ELSE modelCalls
          /\ frames' =
                [frames EXCEPT
                    ![i] = IF r.raised
                              THEN [@ EXCEPT
                                       !.pubsub_message = d,
                                       !.ppc = "raised",
                                       !.result = [type |-> "exception",
                                                   value |-> r.value]]
                              ELSE [@ EXCEPT
                                       !.pubsub_message = d,
                                       !.ppc = "analyzed",
                                       !.analysis_result = r.value,
                                       !.answers = Append(@, reply)]]
    /\ UNCHANGED <<event, api_key, webhook_url, project_id, bigquery_imported,
                   ppc, pubsub_message, analysis_result, calls, posts, inserts,
                   result>>
    /\ UNCHANGED <<streamVars, objVars, unitVars>>

\* invocation i: send_notification(analysis_result)
InvNotify(i) ==
    /\ frames[i].ppc = "analyzed"
    /\ \E resp \in InvResponses :
          LET r == send_notification(PyDict(frames[i].analysis_result),
                                     webhook_url, resp)
          IN
          /\ posts' = posts \o r.posted
          /\ frames' = [frames EXCEPT
                           ![i].ppc = "notified",
                           ![i].posted = @ \o r.posted,
                           ![i].answers = Append(@, resp)]
    /\ UNCHANGED <<event, api_key, webhook_url, project_id, bigquery_imported,
                   ppc, pubsub_message, analysis_result, calls, modelCalls,
                   inserts, result>>
    /\ UNCHANGED <<streamVars, objVars, unitVars>>

\* invocation i: store_data(pubsub_message, analysis_result), with a client
\* of its own
InvStore(i) ==
    /\ frames[i].ppc = "notified"
    /\ \E ins \in InvInsertOutcomes, now \in Clock :
          LET r == store_data(frames[i].pubsub_message,
                              frames[i].analysis_result, project_id,
                              bigquery_imported, ins, now)
          IN
          /\ inserts' = inserts \o r.inserted
          /\ frames' = [frames EXCEPT
                           ![i].ppc = IF r.raised THEN "raised" ELSE "stored",
                           ![i].inserted = @ \o r.inserted,
                           ![i].answers = @ \o <<ins, now>>,
                           ![i].result =
                               IF r.raised
                                  THEN [type |-> "exception",
                                        value |-> "AttributeError"]
                                  ELSE @]
    /\ UNCHANGED <<event, api_key, webhook_url, project_id, bigquery_imported,
                   ppc, pubsub_message, analysis_result, calls, modelCalls,
                   posts, result>>
    /\ UNCHANGED <<streamVars, objVars, unitVars>>

\* invocation i: return "OK"
InvReturn(i) ==
    /\ frames[i].ppc = "stored"
    /\ frames' = [frames EXCEPT ![i].ppc = "done", ![i].result = PyStr("OK")]
    /\ UNCHANGED procVars
    /\ UNCHANGED <<streamVars, objVars, unitVars>>

InvNext ==
    \E i \in Invocations :
        \/ InvAnalyze(i)
        \/ InvNotify(i)
        \/ InvStore(i)
        \/ InvReturn(i)

-----------------------------------------------------------------------------
(* The programs, each run on its own *)

\* no process_pubsub_message is running
ProcIdle ==
    /\ event = PyNone
    /\ api_key = FALSE
    /\ webhook_url = FALSE
    /\ project_id = FALSE
    /\ bigquery_imported = FALSE
    /\ ppc = "idle"
    /\ pubsub_message = PyNone
    /\ analysis_result = PyNone
    /\ calls = <<>>
    /\ modelCalls = <<>>
    /\ posts = <<>>
    /\ inserts = <<>>
    /\ result = PyNone

\* no ingestion program is running
StreamIdle ==
    /\ entry = "none"
    /\ batch_size = DefaultBatchSize
    /\ max_retries = DefaultMaxRetries
    /\ pc = "idle"
    /\ retry_count = 0
    /\ documents = <<>>
    /\ idx = 0
    /\ data = None
    /\ pullLog = <<>>
    /\ sleeps = <<>>
    /\ yielded = <<>>
    /\ published = <<>>
    /\ closeCalls = 0
    /\ gen = "none"
    /\ outcome = "none"

\* no streamer object is being exercised
ObjIdle ==
    /\ ctor_args = NoParams
    /\ environ = FullEnv
    /\ has_close = TRUE
    /\ opc = "idle"
    /\ streamer = PyNone
    /\ clientInits = <<>>
    /\ closeLog = <<>>
    /\ processedLog = <<>>

\* no function is being called on its own
UnitIdle ==
    /\ ucall = [fn |-> "idle"]
    /\ uout = PyNone

Init == StreamInit /\ ProcIdle /\ ObjIdle /\ UnitIdle /\ InvIdle

Next == StreamNext

\* the ingestion program
Spec == Init /\ [][Next]_vars

ProcessInit == ProcInit /\ StreamIdle /\ ObjIdle /\ UnitIdle /\ InvIdle

ProcessNext == ProcNext

\* process_pubsub_message
ProcessSpec == ProcessInit /\ [][ProcessNext]_vars

ObjectInit == ObjInit /\ StreamIdle /\ ProcIdle /\ UnitIdle /\ InvIdle

ObjectNext == ObjNext

\* the FactivaStreamer object and its methods
ObjectSpec == ObjectInit /\ [][ObjectNext]_vars

UnitSpecInit == UnitInit /\ StreamIdle /\ ProcIdle /\ ObjIdle /\ InvIdle

UnitSpecNext == UnitNext

\* the functions of the pipeline called on their own
UnitSpec == UnitSpecInit /\ [][UnitSpecNext]_vars

ConcurrentInit == InvInit /\ StreamIdle /\ ObjIdle /\ UnitIdle

ConcurrentNext == InvNext

\* two invocations of process_pubsub_message, their steps interleaved
ConcurrentSpec == ConcurrentInit /\ [][ConcurrentNext]_vars


-----------------------------------------------------------------------------
(* What the logs say about a run of stream() *)

\* the number of failed attempts in a row that ends with attempt p
RECURSIVE RunAt(_, _)
RunAt(log, p) ==
    IF p = 0 \/ log[p].status # "failed" THEN 0 ELSE 1 + RunAt(log, p - 1)

\* the failed attempts in a row at the end of the log
TrailingFails(log) == RunAt(log, Len(log))

\* the attempts after which the loop sleeps: failed, and within the retries
Retried(log, n) ==
    SelectSeq([p \in 1..Len(log) |-> p],
              LAMBDA p : log[p].status = "failed" /\ RunAt(log, p) <= n)

\* the yields of attempt p, in the order they were made
YieldsOf(p) == SelectSeq(yielded, LAMBDA t : t[1] = p)

\* <<p, 1>>, ..., <<p, k>>
TagsUpTo(p, k) == [i \in 1..k |-> <<p, i>>]

Last(seq) == seq[Len(seq)]

-----------------------------------------------------------------------------
(* C1: for every max_retries = n, stream() raises exactly when n+1 attempts
   in a row have failed, the failing attempt being the last one made; while
   it runs and is about to pull, retry_count is the number of attempts that
   failed in a row since the start or the last batch yielded in full, so a
   batch yielded in full (all of its documents) puts it back to 0. *)
C1_RetryExhaustion ==
    /\ gen = "raised" <=> TrailingFails(pullLog) > max_retries
    /\ gen = "raised" => /\ TrailingFails(pullLog) = max_retries + 1
                         /\ retry_count = max_retries + 1
    /\ (gen = "running" /\ pc = "pull") =>
          /\ retry_count = TrailingFails(pullLog)
          /\ retry_count <= max_retries
    /\ \A p \in 1..Len(pullLog) :
          pullLog[p].status = "done" =>
             /\ YieldsOf(p) = TagsUpTo(p, pullLog[p].len)
             /\ (p = Len(pullLog) /\ pc = "pull" => retry_count = 0)

\* n = 1: a failure, a batch yielded in full, then two failures in a row
C1_Witness ==
    /\ gen = "raised"
    /\ max_retries = 1
    /\ Len(pullLog) = 4
    /\ pullLog[1].status = "failed"
    /\ pullLog[2].status = "done"
    /\ pullLog[2].len = 2
    /\ pullLog[3].len = -1
    /\ pullLog[4].len = -1

(* C2: whenever the retrieval loop has been left, the feed client's close
   has been invoked. *)
C2_CloseOnEveryExit == pc = "exit" => closeCalls >= 1

(* C3: the sleeps of a run are exactly 5*k after the k-th failure in a row,
   for every failure with k <= max_retries, in order, and nothing else (no
   sleep after a success or after the failure that exhausts the retries);
   every pull, a repeated one included, is made with the streamer's stream
   id and the batch_size argument. *)
C3_LinearBackoff ==
    /\ Len(sleeps) = Len(Retried(pullLog, max_retries))
    /\ \A i \in 1..Len(sleeps) :
          sleeps[i] = 5 * RunAt(pullLog, Retried(pullLog, max_retries)[i])
    /\ \A p \in 1..Len(pullLog) :
          pullLog[p].args = [stream_id |-> STREAM_ID, batch_size |-> batch_size]
    /\ (max_retries = 0 /\ gen = "raised") => sleeps = <<>>

\* three failures in a row within the retries, then the pull is repeated
C3_Witness ==
    /\ sleeps = <<5, 10, 15>>
    /\ Len(pullLog) = 4
    /\ pullLog[4].status = "iterating"

(* C4: consuming stream(batch_size=2, max_retries=1) against a feed whose
   pull returns a batch of 2 documents pulls from the feed exactly once. *)
C4_PullsOnce ==
    (/\ entry = "collect"
     /\ batch_size = 2
     /\ max_retries = 1
     /\ \A p \in 1..Len(pullLog) :
           pullLog[p].len = 2 /\ pullLog[p].status # "failed")
    => Len(pullLog) <= 1

(* C5: the generator never returns; it ends only by the raise on retry
   exhaustion; a batch that came back without failure, an empty one
   included, yields what it holds, counts as no failure, and leaves the
   loop at the next pull with no sleep. *)
C5_NeverEndsNormally ==
    /\ gen # "returned"
    /\ gen = "raised" => retry_count > max_retries
    /\ \A p \in 1..Len(pullLog) :
          pullLog[p].len = 0 =>
             /\ pullLog[p].status \in {"iterating", "done"}
             /\ YieldsOf(p) = <<>>
    /\ (Len(pullLog) > 0 /\ Last(pullLog).status = "done") =>
          /\ pc = "pull" \/ outcome = "interrupted"
          /\ retry_count = 0
          /\ Len(sleeps) = Len(Retried(pullLog, max_retries))

\* an empty batch, and the loop has pulled again
C5_Witness ==
    /\ Len(pullLog) >= 2
    /\ pullLog[1].len = 0
    /\ pullLog[1].status = "done"
    /\ gen = "running"

(* C6: documents are yielded in the order of the batch and batches in the
   order of the pulls; the document the consumer holds is the normalized
   item of the batch at the index of the last yield; a pull is made only
   when the attempt before it is over, and when it ended well every one of
   its documents was yielded; in main() the publishes follow the yields in
   the same order, and a pull is made only when every yielded document has
   been published. *)
C6_YieldOrder ==
    /\ \A p \in 1..Len(pullLog) :
          /\ \E k \in 0..Len(yielded) :
                YieldsOf(p) = TagsUpTo(p, k)
          /\ p < Len(pullLog) => pullLog[p].status \in {"done", "failed"}
          /\ pullLog[p].status = "done" => Len(YieldsOf(p)) = pullLog[p].len
    /\ \A i, j \in 1..Len(yielded) :
          i < j => \/ yielded[i][1] < yielded[j][1]
                   \/ yielded[i][1] = yielded[j][1] /\ yielded[i][2] < yielded[j][2]
    /\ pc = "consume" =>
          /\ Last(yielded) = <<Len(pullLog), idx>>
          /\ data = _process_document(documents[idx])
    /\ entry = "main" =>
          /\ Len(published) <= Len(yielded)
          /\ published = SubSeq(yielded, 1, Len(published))
          /\ Len(yielded) - Len(published) <= 1
          /\ pc \in {"pull", "iter"} => published = yielded

\* main() has published three documents of two batches
C6_Witness ==
    /\ entry = "main"
    /\ Len(published) = 3
    /\ published[2] = <<1, 2>>
    /\ published[3] = <<2, 1>>

-----------------------------------------------------------------------------
(* What the log says about a run of process_pubsub_message *)

PipelineOrder == <<"analyze_content", "send_notification", "store_data">>

\* the analysis step has returned
Analysed == Len(calls) >= 1 /\ ~calls[1].raised

\* the model was called and the call raised
ModelRaised == modelCalls # <<>> /\ modelCalls[1].reply.kind = "raise"

(* C7: the calls of a run are analysis, then notification, then storage,
   each at most once and each begun only when the one before has returned;
   a run whose analysis step returned does not raise, can always go on
   until it is done, and when done has made all three calls and returned
   "OK". *)
C7_PipelineOrder ==
    /\ Len(calls) <= 3
    /\ \A i \in 1..Len(calls) : calls[i].fn = PipelineOrder[i]
    /\ ppc = "raised" => Len(calls) = 1 /\ calls[1].raised
    /\ ppc = "done" => Len(calls) = 3 /\ result = PyStr("OK")
    /\ Analysed =>
          /\ ppc \in {"analyzed", "notified", "stored", "done"}
          /\ ppc # "done" => ENABLED ProcNext

\* a run that is done, both sinks having reported success
C7_Witness ==
    /\ ppc = "done"
    /\ calls[2].returned
    /\ calls[3].returned

(* C8: when the notifier returned false, the run does not raise, storage
   can be and is attempted, once, with the document that was analysed and
   the analysis the notifier was given, and the run returns "OK". *)
C8_NotifyFailureDoesNotBlockStore ==
    (Len(calls) >= 2 /\ ~calls[2].returned) =>
        /\ ppc \in {"notified", "stored", "done"}
        /\ ppc = "notified" => ENABLED Store
        /\ ppc \in {"stored", "done"} =>
              /\ Len(calls) = 3
              /\ calls[3].fn = "store_data"
              /\ ~calls[3].raised
              /\ calls[3].article_data = calls[1].data
              /\ calls[3].analysis_data = calls[2].data
        /\ ppc = "done" => result = PyStr("OK")

\* the notifier reported failure, the store reported success, the run is done
C8_Witness ==
    /\ ppc = "done"
    /\ ~calls[2].returned
    /\ calls[3].returned
    /\ webhook_url

(* C9, as claimed: the value returned records whether notification and
   storage succeeded. *)
C9_OutcomeReportsSinks ==
    ppc = "done" =>
        /\ "notifySucceeded" \in DOMAIN result
        /\ result.notifySucceeded = calls[2].returned
        /\ "storeSucceeded" \in DOMAIN result
        /\ result.storeSucceeded = calls[3].returned

(* C9, amended: the value returned is the string "OK" in every run that
   returns, whatever the notifier and the store reported. *)
C9_ReturnsOkWhateverTheSinks ==
    ppc = "done" => result = PyStr("OK")

\* a run that returned after the notifier said false and the store said true
C9_Witness ==
    /\ ppc = "done"
    /\ ~calls[2].returned
    /\ calls[3].returned
    /\ result = PyStr("OK")

(* C10: with the model credential configured, a model call that raises
   does not make analyze_content raise: the analysis carries the error,
   empty topics, facts and related_entities and sentiment neutral; an
   analysis carries an error field only then; the notifier and the store
   are then called with that analysis. *)
C10_DegradedAnalysis ==
    /\ (api_key /\ ModelRaised) => Analysed
    /\ Analysed =>
          /\ "error" \in DOMAIN analysis_result <=> (api_key /\ ModelRaised)
          /\ (api_key /\ ModelRaised) =>
                /\ analysis_result.error = modelCalls[1].reply.error
                /\ analysis_result.topics = <<>>
                /\ analysis_result.facts = <<>>
                /\ analysis_result.related_entities = <<>>
                /\ analysis_result.sentiment = "neutral"
                /\ ppc # "done" => ENABLED ProcNext
          /\ Len(calls) >= 2 => calls[2].data = analysis_result
          /\ Len(calls) >= 3 => calls[3].analysis_data = analysis_result

\* a run that is done with an analysis that carries the error
C10_Witness ==
    /\ ppc = "done"
    /\ api_key
    /\ ModelRaised
    /\ "error" \in DOMAIN analysis_result
    /\ Len(calls) = 3

(* C11, as claimed: for every event, one with no data field included,
   process_pubsub_message does not raise. *)
C11_NeverRaises ==
    /\ ppc # "raised"
    /\ result.type # "exception"

(* C12: when the analysis step raised, the exception leaves
   process_pubsub_message: the run is over with that exception, the call of
   analyze_content is the only call made, nothing was posted or inserted,
   and neither the notifier nor the store can be called any more. *)
C12_AnalysisRaisePropagates ==
    (Len(calls) >= 1 /\ calls[1].raised) =>
        /\ ppc = "raised"
        /\ result.type = "exception"
        /\ Len(calls) = 1
        /\ posts = <<>>
        /\ inserts = <<>>
        /\ ~ENABLED Notify
        /\ ~ENABLED Store

\* the event has no data field, and analyze_content raised on None
C12_Witness ==
    /\ ppc = "raised"
    /\ "data" \notin DOMAIN event
    /\ calls[1].data = PyNone
    /\ result = [type |-> "exception", value |-> "AttributeError"]

(* C13: without the model credential the model is never called; the
   analysis of a document is the fallback analysis of that document, marked
   is_mock and without an error field; the notifier is then called, and
   whatever it returned the store is called too. *)
C13_FallbackWithoutCredential ==
    (ppc # "idle" /\ ~api_key) =>
        /\ modelCalls = <<>>
        /\ Analysed =>
              /\ analysis_result = _mock_analysis_result(calls[1].data.value)
              /\ analysis_result.is_mock = TRUE
              /\ "error" \notin DOMAIN analysis_result
              /\ ppc = "analyzed" => ENABLED Notify
              /\ ppc = "notified" => ENABLED Store
              /\ ppc \in {"stored", "done"} =>
                    /\ Len(calls) = 3
                    /\ calls[2].fn = "send_notification"
                    /\ calls[2].data = analysis_result
                    /\ calls[3].fn = "store_data"
                    /\ calls[3].analysis_data = analysis_result

\* no credential, the notifier returned false, the store was still called
C13_Witness ==
    /\ ppc = "done"
    /\ ~api_key
    /\ analysis_result.is_mock
    /\ ~calls[2].returned
    /\ calls[3].fn = "store_data"

(* C14, as claimed: main() is left only when the retrieval retries are
   exhausted. *)
C14_StopsOnlyOnExhaustion ==
    (entry = "main" /\ pc = "exit") => outcome = "exhausted"

-----------------------------------------------------------------------------
(* What the logs say about a streamer object *)

\* the credential f is given neither as a parameter nor by the environment
NotSupplied(f) == ctor_args[f] = None /\ EnvName[f] \notin DOMAIN environ

\* the number of times the client's close was called
RECURSIVE ClientCloses(_)
ClientCloses(log) ==
    IF log = <<>> THEN 0 ELSE Head(log).client_close + ClientCloses(Tail(log))

(* C15: when one of user id, password, client id, client secret, stream id
   is given neither as a parameter nor by the environment, the constructor
   ends with the configuration error, no feed client has been created, there
   is no streamer, and so no stream(), _process_document or close() can be
   started on one; a streamer that was constructed holds all five values. *)
C15_MissingCredentialRaises ==
    /\ (opc \notin {"idle", "new"} /\ \E f \in CredentialFields : NotSupplied(f)) =>
          /\ opc = "config_error"
          /\ clientInits = <<>>
          /\ streamer = PyNone
          /\ closeLog = <<>>
          /\ processedLog = <<>>
          /\ ~ENABLED StreamEnds
          /\ ~ENABLED ProcessDocument
          /\ ~ENABLED CloseCall
    /\ opc \in {"ready", "exhausted"} =>
          /\ Len(clientInits) = 1
          /\ \A f \in CredentialFields :
                /\ streamer[f] \notin {None, ""}
                /\ streamer[f] \in {ctor_args[f], Get(environ, EnvName[f])}

\* only the stream id is missing: the other four are in the environment
C15_Witness ==
    /\ opc = "config_error"
    /\ ctor_args = NoParams
    /\ environ = Without(FullEnv, "FACTIVA_STREAM_ID")
    /\ clientInits = <<>>

(* C16: no close() call raises, whenever it is made (before streaming,
   after exhaustion, after an earlier close) and whatever the client does
   (its close returns, its close raises, it has no close); each close() calls
   the client's close once when the client has one, so n calls of close()
   make n calls of the client's close; and close() can always be called
   again. *)
C16_CloseNeverRaises ==
    /\ \A i \in 1..Len(closeLog) :
          /\ ~closeLog[i].raised
          /\ closeLog[i].client_close = IF has_close THEN 1 ELSE 0
    /\ has_close => ClientCloses(closeLog) = Len(closeLog)
    /\ (opc \in {"ready", "exhausted"} /\ Len(closeLog) < MaxCloses) =>
          ENABLED CloseCall

\* after exhaustion: a close whose client close raised, then a second close
C16_Witness ==
    /\ opc = "exhausted"
    /\ has_close
    /\ Len(closeLog) = 2
    /\ closeLog[1].client_raised
    /\ ~closeLog[2].client_raised
    /\ ClientCloses(closeLog) = 2

\* the primary and the variant key of each unified field
KeyPairs ==
    [id |-> <<"id", "documentId">>, title |-> <<"title", "headline">>,
     body |-> <<"body", "text">>, source |-> <<"source", "publication">>]

\* the raw document has the field under neither of its keys
Lacks(document, field) ==
    /\ KeyPairs[field][1] \notin DOMAIN document
    /\ KeyPairs[field][2] \notin DOMAIN document

(* C17, as claimed: a raw document that lacks title, body or source under
   both keys is normalized to a document whose field is the empty string,
   and whose raw field is the input. *)
C17_EmptyStringDefaults ==
    \A i \in 1..Len(processedLog) :
        /\ processedLog[i].processed.raw_data = processedLog[i].document
        /\ \A field \in {"title", "body", "source"} :
              Lacks(processedLog[i].document, field) =>
                 processedLog[i].processed[field] = ""

(* C18: each of id, title, body, source of the normalized document is the
   value under the primary key when the raw document has a non-empty value
   there, otherwise what the raw document has under the variant key; two
   documents, one with documentId/headline and one with id/title, are
   normalized to documents whose id and title are those values. *)
C18_PrimaryThenVariant ==
    /\ \A i \in 1..Len(processedLog) :
          LET d == processedLog[i].document
              r == processedLog[i].processed
          IN \A field \in DOMAIN KeyPairs :
                LET primary == KeyPairs[field][1]
                    variant == KeyPairs[field][2]
                IN r[field] =
                      IF primary \in DOMAIN d /\ d[primary] # ""
                         THEN d[primary]
                      ELSE IF variant \in DOMAIN d THEN d[variant]
                      ELSE None
    /\ \A i \in 1..Len(processedLog) :
          /\ processedLog[i].document = RawVariant =>
                /\ processedLog[i].processed.id = "doc2"
                /\ processedLog[i].processed.title = "Test Title 2"
          /\ processedLog[i].document = RawPrimary =>
                /\ processedLog[i].processed.id = "doc1"
                /\ processedLog[i].processed.title = "Test Title 1"

\* the two items of a batch, one of each naming, have been normalized
C18_Witness ==
    /\ Len(processedLog) = 2
    /\ processedLog[1].document = RawVariant
    /\ processedLog[2].document = RawPrimary
    /\ processedLog[1].processed.id = "doc2"
    /\ processedLog[2].processed.title = "Test Title 1"

(* C19, as claimed: the row stored for a document that came without
   identifier has the empty string as its id. *)
C19_StoredIdIsEmptyString ==
    \A i \in 1..Len(inserts) :
        ("id" \notin DOMAIN calls[1].data.value \/ calls[1].data.value.id = None)
            => inserts[i].id = ""

\* the markers that open a section
SectionMarkers ==
    {MK_TOPICS, MK_SENTIMENT, MK_FACTS, MK_FIGURES, MK_INDUSTRY, MK_COMPANY,
     MK_SUMMARY}

\* no word of the text has a section marker in it
NoSectionHeader(text) ==
    \A i \in 1..Len(text) : \A m \in SectionMarkers : ~InWord(m, text[i])

(* C20: whatever text the model returned, the analysis is the parse of
   that text and no error analysis, and keeps the whole text as
   raw_analysis; when the text is empty or has no section marker the
   analysis has sentiment neutral, no topics, no facts, no related_entities
   and the empty summary. *)
C20_ParseNeverFails ==
    (Analysed /\ modelCalls # <<>> /\ modelCalls[1].reply.kind = "text") =>
        LET text == modelCalls[1].reply.text IN
        /\ "error" \notin DOMAIN analysis_result
        /\ analysis_result.raw_analysis = text
        /\ (text = <<>> \/ NoSectionHeader(text)) =>
              /\ analysis_result.sentiment = "neutral"
              /\ analysis_result.topics = <<>>
              /\ analysis_result.facts = <<>>
              /\ analysis_result.related_entities = <<>>
              /\ analysis_result.summary = <<>>

\* the model returned bullets and text without any section marker
C20_Witness ==
    /\ ppc = "done"
    /\ api_key
    /\ modelCalls[1].reply = [kind |-> "text", text |-> ReplyNoHeader]
    /\ analysis_result.raw_analysis = ReplyNoHeader
    /\ analysis_result.topics = <<>>

-----------------------------------------------------------------------------
(* What a call of _analyze_with_openai that returned says about its text *)

\* _analyze_with_openai was called and the model returned a text
Parsed == ucall.fn = "_analyze_with_openai" /\ ucall.reply.kind = "text"

\* the lines of the text that are sentiment headers: they have the
\* sentiment marker, and not the topics marker that is looked for first
SentimentHeaders(text) ==
    SelectSeq(SplitLines(text),
              LAMBDA l : In(MK_SENTIMENT, l) /\ ~In(MK_TOPICS, l))

(* C21, as claimed: for the reply in the five-section layout, the entity
   bullets "- KigyouA", "- GyoukaiB" give related_entities
   [KigyouA, GyoukaiB] and the line after the summary header is the
   summary. *)
C21_LayoutParsedInFull ==
    (Parsed /\ ucall.reply.text = ReplyLayout) =>
        /\ uout.value.topics = <<<<"Bijinesu">>, <<"Tekunorojii">>, <<"Keizai">>>>
        /\ uout.value.facts = <<<<"Jijitsu1">>, <<"Jijitsu2">>>>
        /\ uout.value.related_entities = <<<<"KigyouA">>, <<"GyoukaiB">>>>
        /\ uout.value.summary = <<"KoreWaTesutoYouyakuDesu">>

(* C22: the sentiment of the analysis is decided by the last
   sentiment-header line of the text: positive when that line has the
   positive keyword (also next to the negative one), negative when it has
   only the negative keyword, neutral when it has neither. *)
C22_PositiveWins ==
    (Parsed /\ SentimentHeaders(ucall.reply.text) # <<>>) =>
        LET line == Last(SentimentHeaders(ucall.reply.text)) IN
        /\ In(KW_POSITIVE, line) => uout.value.sentiment = "positive"
        /\ (In(KW_NEGATIVE, line) /\ ~In(KW_POSITIVE, line)) =>
              uout.value.sentiment = "negative"
        /\ (~In(KW_NEGATIVE, line) /\ ~In(KW_POSITIVE, line)) =>
              uout.value.sentiment = "neutral"

\* a sentiment header with the negative and then the positive keyword
C22_Witness ==
    /\ Parsed
    /\ ucall.reply.text = <<MK_SENTIMENT, ":", SP, KW_NEGATIVE, "/", KW_POSITIVE>>
    /\ uout.value.sentiment = "positive"

(* C23: the topics of the analysis are at most 3 and are the first 3 (or
   all, when fewer) of the topic bullets the parse collected, in the order
   of the text; a topics header followed by k bullet lines gives the first
   min(k, 3) of them. *)
C23_AtMostThreeTopics ==
    Parsed =>
        LET text == ucall.reply.text
            collected == ParseLines(ParseStart, SplitLines(text)).topics
        IN /\ Len(uout.value.topics) <= 3
           /\ Len(uout.value.topics) = Min(3, Len(collected))
           /\ \A i \in 1..Len(uout.value.topics) :
                 uout.value.topics[i] = collected[i]
           /\ \A k \in 0..Min(MaxBullets, Len(BulletNames)) :
                 text = TopicsText(k) =>
                    uout.value.topics =
                       [i \in 1..Min(k, 3) |-> <<BulletNames[i]>>]

\* a topics header followed by four bullet lines
C23_Witness ==
    /\ Parsed
    /\ ucall.reply.text = TopicsText(4)
    /\ uout.value.topics = <<<<"Bijinesu">>, <<"Tekunorojii">>, <<"Keizai">>>>

\* the three values of sentiment
Sentiments == {"positive", "neutral", "negative"}

\* no sentiment header of the text has a polarity keyword
NoRecognisedSentiment(text) ==
    \A i \in 1..Len(SentimentHeaders(text)) :
        /\ ~In(KW_POSITIVE, SentimentHeaders(text)[i])
        /\ ~In(KW_NEGATIVE, SentimentHeaders(text)[i])

(* C24: the analysis analyze_content returned - the parse of a model
   reply, the fallback without credential, the analysis after a failed model
   call - has sentiment positive, neutral or negative; it is neutral when
   the model's text has no sentiment header with a polarity keyword. *)
C24_SentimentInRange ==
    Analysed =>
        /\ analysis_result.sentiment \in Sentiments
        /\ (modelCalls # <<>> /\ modelCalls[1].reply.kind = "text"
               /\ NoRecognisedSentiment(modelCalls[1].reply.text)) =>
              analysis_result.sentiment = "neutral"

\* the model's sentiment header has no keyword the parse knows
C24_Witness ==
    /\ ppc = "done"
    /\ api_key
    /\ modelCalls[1].reply = [kind |-> "text", text |-> ReplyUnrecognised]
    /\ analysis_result.sentiment = "neutral"

(* C25: send_notification does not raise; it returns true exactly when a
   webhook URL is configured, the POST was made and answered 204; without
   URL it makes no POST and returns false; it returns false when the POST
   answers another status, when the POST raises, and when the embed cannot
   be built (no POST is made then). *)
C25_NotifierNeverRaises ==
    ucall.fn = "send_notification" =>
        /\ ~uout.raised
        /\ uout.value <=>
              /\ ucall.url
              /\ uout.posted # <<>>
              /\ ucall.resp.kind = "status"
              /\ ucall.resp.status_code = 204
        /\ ~ucall.url => uout.posted = <<>> /\ ~uout.value
        /\ (ucall.resp.kind = "status" /\ ucall.resp.status_code # 204) =>
              ~uout.value
        /\ ucall.resp.kind = "raise" => ~uout.value
        /\ ucall.data.type # "dict" => uout.posted = <<>> /\ ~uout.value
        /\ (ucall.url /\ ucall.data.type = "dict") => Len(uout.posted) = 1

\* a URL is configured and the data is None: building the embed raises
C25_Witness ==
    /\ ucall.fn = "send_notification"
    /\ ucall.url
    /\ ucall.data = PyNone
    /\ ~uout.raised
    /\ ~uout.value

(* C26, as claimed: store_data does not raise, for every article value,
   None included; it returns true exactly when a project id is configured
   and the insert reported no errors. *)
C26_StoreNeverRaises ==
    ucall.fn = "store_data" =>
        /\ ~uout.raised
        /\ uout.value <=>
              (ucall.project /\ uout.inserted # <<>> /\ ucall.ins = "no_errors")
        /\ ~ucall.project => uout.inserted = <<>>

\* the names of the fields of a row, in the order of the claim
ROW_FIELDS ==
    <<"id", "title", "body", "source", "publication_date", "url", "topics",
      "sentiment", "summary", "facts", "related_entities", "metadata",
      "processed_at">>

\* the elements of a sequence
Range(seq) == {seq[i] : i \in 1..Len(seq)}

(* C30: the row _prepare_row builds has exactly the 13 fields id, title,
   body, source, publication_date, url, topics, sentiment, summary, facts,
   related_entities, metadata, processed_at; its metadata is JSON-encoded;
   an analysis field that is absent is defaulted (sentiment neutral, lists
   empty, summary empty), a present one is taken over; the schema of the
   table declares these 13 names in this order. *)
C30_RowHasThirteenFields ==
    /\ ucall.fn = "_prepare_row" =>
          LET row == uout.value
              analysis == ucall.analysis_data
          IN /\ ~uout.raised
             /\ DOMAIN row = Range(ROW_FIELDS)
             /\ Cardinality(DOMAIN row) = 13
             /\ DOMAIN row.metadata = {"json"}
             /\ row.processed_at = ucall.now
             /\ row.sentiment = IF "sentiment" \in DOMAIN analysis
                                   THEN analysis.sentiment ELSE "neutral"
             /\ \A f \in {"topics", "facts", "related_entities", "summary"} :
                   row[f] = IF f \in DOMAIN analysis THEN analysis[f] ELSE <<>>
             /\ \A f \in {"id", "title", "body", "source",
                           "publication_date", "url"} :
                   row[f] = IF f \in DOMAIN ucall.article_data
                               THEN ucall.article_data[f] ELSE ""
    /\ ucall.fn = "_get_table_schema" =>
          /\ Len(uout.value) = 13
          /\ [i \in 1..Len(uout.value) |-> uout.value[i].name] = ROW_FIELDS

\* the row of an empty article and an empty analysis
C30_Witness ==
    /\ ucall.fn = "_prepare_row"
    /\ ucall.article_data = EmptyDict
    /\ ucall.analysis_data = EmptyDict
    /\ uout.value.sentiment = "neutral"
    /\ uout.value.id = ""
    /\ uout.value.metadata = JsonDumps(EmptyDict)

(* C27: publish_message returns only when the publish has completed, and
   then returns the message id the bus reported; without project id it
   raises the configuration error and nothing was handed to the bus; when
   handing over or completing the publish fails it raises that failure and
   returns no id. *)
C27_PublishReturnsIdOrRaises ==
    ucall.fn = "publish_message" =>
        /\ ~uout.raised <=> (ucall.project /\ ucall.outcome = "published")
        /\ ~uout.raised =>
              /\ uout.completed
              /\ uout.value = TEST_MESSAGE_ID
              /\ Len(uout.publishCalls) = 1
              /\ uout.publishCalls[1].data = JsonDumps(ucall.data)
        /\ ~ucall.project =>
              /\ uout.raised
              /\ uout.value = "ValueError"
              /\ uout.publishCalls = <<>>
        /\ (ucall.project /\ ucall.outcome # "published") =>
              /\ uout.raised
              /\ uout.value # TEST_MESSAGE_ID
              /\ ~uout.completed

\* the message was handed to the bus and waiting for its completion raised
C27_Witness ==
    /\ ucall.fn = "publish_message"
    /\ ucall.project
    /\ ucall.outcome = "result_raises"
    /\ uout.raised
    /\ Len(uout.publishCalls) = 1

\* what analyze_content returns for the event of this run: computed from the
\* event's data and, when the model was called, from the reply it gave
AnalysisOfRun ==
    {analyze_content(EventData(event), api_key, reply).value :
        reply \in IF modelCalls = <<>> THEN ModelReplies
                                       ELSE {modelCalls[1].reply}}

(* C29: in a run of process_pubsub_message the analysis step is called once,
   on the event's data, and the model at most once; the notifier is handed
   what that call returned, and the store is handed the event's data and
   the same analysis. *)
C29_OneAnalysisForBothSinks ==
    /\ Len(calls) >= 1 =>
          /\ calls[1].fn = "analyze_content"
          /\ calls[1].data = EventData(event)
          /\ \A i \in 2..Len(calls) : calls[i].fn # "analyze_content"
          /\ Len(modelCalls) <= 1
    /\ Len(calls) >= 2 =>
          /\ calls[2].fn = "send_notification"
          /\ calls[2].data \in AnalysisOfRun
          /\ calls[2].data = analysis_result
    /\ Len(calls) >= 3 =>
          /\ calls[3].fn = "store_data"
          /\ calls[3].article_data = EventData(event)
          /\ calls[3].analysis_data = calls[2].data
          /\ \A i \in 1..Len(inserts) :
                \E now \in Clock :
                    inserts[i] = _prepare_row(EventData(event).value,
                                              calls[2].data, now)

\* the model was called, its analysis was posted and the row was inserted
C29_Witness ==
    /\ ppc = "done"
    /\ Len(modelCalls) = 1
    /\ modelCalls[1].reply = [kind |-> "text", text |-> ReplyLayout]
    /\ calls[2].returned
    /\ Len(posts) = 1
    /\ calls[3].returned
    /\ Len(inserts) = 1

\* what an invocation of process_pubsub_message on event e sends out when
\* nothing else runs, the model answering answers[1], the webhook
\* answers[2], the warehouse answers[3] at time answers[4]
Alone(e, answers) ==
    LET d == EventData(e)
        a == analyze_content(d, api_key, answers[1])
        n == send_notification(PyDict(a.value), webhook_url, answers[2])
        s == store_data(d, a.value, project_id, bigquery_imported,
                        answers[3], answers[4])
    IN [analysis |-> a.value, posted |-> n.posted, inserted |-> s.inserted]

\* the answers given to frame f so far, filled up with answers of no
\* consequence for the steps not yet taken
AnswersTo(f) ==
    f.answers
        \o SubSeq(<<[kind |-> "raise", error |-> "API error"],
                    [kind |-> "raise"], "client_raise",
                    "2023-01-01T00:00:00">>,
                  Len(f.answers) + 1, 4)

(* C28: with two invocations interleaved in any order, each invocation holds
   the analysis of its own document, and has posted the payload and
   inserted the row it would have running alone with the same answers of
   its collaborators; an invocation whose analysis step raised has sent
   nothing; what reached the webhook and the warehouse is what the two
   invocations sent, nothing more. *)
C28_InvocationsIndependent ==
    frames # <<>> =>
        /\ \A i \in Invocations :
              LET f == frames[i]
                  alone == Alone(f.event, AnswersTo(f))
              IN
              /\ f.ppc = "received" =>
                    /\ f.analysis_result = PyNone
                    /\ f.posted = <<>>
                    /\ f.inserted = <<>>
              /\ f.ppc = "raised" =>
                    /\ f.analysis_result = PyNone
                    /\ f.posted = <<>>
                    /\ f.inserted = <<>>
              /\ f.ppc \in {"analyzed", "notified", "stored", "done"} =>
                    f.analysis_result = alone.analysis
              /\ f.ppc = "analyzed" => f.posted = <<>>
              /\ f.ppc \in {"notified", "stored", "done"} =>
                    f.posted = alone.posted
              /\ f.ppc \in {"analyzed", "notified"} => f.inserted = <<>>
              /\ f.ppc \in {"stored", "done"} => f.inserted = alone.inserted
        /\ Len(posts) = Len(frames[1].posted) + Len(frames[2].posted)
        /\ Len(inserts) = Len(frames[1].inserted) + Len(frames[2].inserted)
        /\ \A k \in 1..Len(posts) :
              \E i \in Invocations : posts[k] \in Range(frames[i].posted)
        /\ \A k \in 1..Len(inserts) :
              \E i \in Invocations : inserts[k] \in Range(frames[i].inserted)

\* both invocations are through, with different analyses; invocation 1
\* posted before invocation 2 and inserted after it
C28_Witness ==
    /\ frames # <<>>
    /\ \A i \in Invocations : frames[i].ppc = "done"
    /\ frames[1].analysis_result # frames[2].analysis_result
    /\ Len(posts) = 2
    /\ posts[1] = frames[1].posted[1]
    /\ posts[1] # posts[2]
    /\ Len(inserts) = 2
    /\ inserts[1] = frames[2].inserted[1]
    /\ inserts[2] = frames[1].inserted[1]

(* C31, as claimed: an event whose data is a base64 string is accepted:
   the data handed on is the decoded document, the run does not raise, and
   it ends with one analysis, one notification, one store call and "OK". *)
C31_Base64Accepted ==
    (EventData(event) = PyStr(BASE64_DATA) /\ ppc \notin {"idle", "received"}) =>
        /\ ppc # "raised"
        /\ pubsub_message.type = "dict"
        /\ ppc = "done" => (Len(calls) = 3 /\ result = PyStr("OK"))

\* the field names an embed of analysis d is to have, in order
FieldNames(d) ==
    (IF GetDefault(d, "topics", <<>>) # <<>> THEN <<"Topikku">> ELSE <<>>)
        \o <<"KanjouBunseki">>
        \o (IF GetDefault(d, "facts", <<>>) # <<>>
               THEN <<"JuuyouNaJijitsu">> ELSE <<>>)
        \o (IF GetDefault(d, "related_entities", <<>>) # <<>>
               THEN <<"KanrenEntiti">> ELSE <<>>)

\* the number of positions of sequence seq holding x
Count(seq, x) == Cardinality({i \in 1..Len(seq) : seq[i] = x})

(* C32: the embed of an analysis has colour green and the positive label
   for sentiment positive, red and the negative label for negative, blue
   and the neutral label for any other or no sentiment; its fields are, in
   this order, topics (only if the list is non-empty), sentiment (always),
   facts (only if non-empty), entities (only if non-empty); the facts field
   shows the first facts, three at most. *)
C32_EmbedOfAnalysis ==
    ucall.fn = "_create_embed" =>
        LET d == ucall.data
            embed == uout.value
            sentiment == GetDefault(d, "sentiment", "neutral")
            facts == GetDefault(d, "facts", <<>>)
            label == CHOOSE i \in 1..Len(embed.fields) :
                         embed.fields[i].name = "KanjouBunseki"
        IN
        /\ ~uout.raised
        /\ sentiment = "positive" =>
              /\ embed.color = COLOR_GREEN
              /\ embed.fields[label].value[1] = KW_POSITIVE
        /\ sentiment = "negative" =>
              /\ embed.color = COLOR_RED
              /\ embed.fields[label].value[1] = KW_NEGATIVE
        /\ sentiment \notin {"positive", "negative"} =>
              /\ embed.color = COLOR_BLUE
              /\ embed.fields[label].value = <<"Nyuutoraru">>
        /\ [i \in 1..Len(embed.fields) |-> embed.fields[i].name] = FieldNames(d)
        /\ \A i \in 1..Len(embed.fields) :
              embed.fields[i].name = "JuuyouNaJijitsu" =>
                  /\ Count(embed.fields[i].value, "bullet")
                        = Min(Len(facts), FACTS_SHOWN)
                  /\ \A k \in 1..Min(Len(facts), FACTS_SHOWN) :
                        Count(embed.fields[i].value, facts[k][1]) = 1
                  /\ \A k \in (FACTS_SHOWN + 1)..Len(facts) :
                        Count(embed.fields[i].value, facts[k][1]) = 0

\* four facts, no topics, a sentiment value the embed does not know
C32_Witness ==
    /\ ucall.fn = "_create_embed"
    /\ "topics" \notin DOMAIN ucall.data
    /\ "facts" \in DOMAIN ucall.data
    /\ Len(ucall.data.facts) = FACTS_SHOWN + 1
    /\ "sentiment" \in DOMAIN ucall.data
    /\ ucall.data.sentiment = "mixed"
    /\ uout.value.color = COLOR_BLUE
    /\ Len(uout.value.fields) = 2

-----------------------------------------------------------------------------
(* What one pass of the parse loop does *)

LoopPass == ucall.fn = "for line in lines"

\* the section a line with a marker opens: the first marker found, looking
\* for topics, sentiment, facts, entities, summary in this order
HeaderSection(line) ==
    IF In(MK_TOPICS, line) THEN "topics"
    ELSE IF In(MK_SENTIMENT, line) THEN "sentiment"
    ELSE IF In(MK_FACTS, line) \/ In(MK_FIGURES, line) THEN "facts"
    ELSE IF In(MK_INDUSTRY, line) \/ In(MK_COMPANY, line) THEN "entities"
    ELSE IF In(MK_SUMMARY, line) THEN "summary"
    ELSE "none"

\* the lists and the summary of a loop state
Collected(st) == <<st.topics, st.facts, st.related_entities, st.summary>>

(* C33: a non-blank line with a marker token in it is a header: the
   section after it is the one of the first marker found in the order
   topics, sentiment, facts, entities, summary, and nothing is appended to
   a list or to the summary, whatever the section and whether or not the
   line starts with a bullet; a line without marker seen before any header
   changes nothing. *)
C33_MarkerLineIsHeader ==
    LoopPass =>
        LET line == Strip(ucall.line) IN
        /\ (line # <<>> /\ HeaderSection(line) # "none") =>
              /\ uout.value.current_section = HeaderSection(line)
              /\ Collected(uout.value) = Collected(ucall.st)
        /\ (ucall.st.current_section = "none" /\ HeaderSection(line) = "none") =>
              /\ uout.value = ucall.st
              /\ Collected(uout.value) = <<<<>>, <<>>, <<>>, <<>>>>

\* in the entities section, a bullet naming a company is taken as a header
C33_Witness ==
    /\ LoopPass
    /\ ucall.st.current_section = "entities"
    /\ ucall.line = <<SP, "-", SP, "KigyouA", SP>>
    /\ uout.value.related_entities = <<>>
    /\ uout.value.current_section = "entities"

\* the line is classified as the sentiment header
IsSentimentHeader(line) == line # <<>> /\ HeaderSection(line) = "sentiment"

(* C38: a pass of the loop changes sentiment only on a sentiment header:
   on any other line, with or without polarity keyword, sentiment stays;
   on a sentiment header it becomes what that line says, neutral if the
   line has no keyword, whatever it was before. *)
C38_SentimentOnlyOnHeader ==
    LoopPass =>
        LET line == Strip(ucall.line) IN
        /\ ~IsSentimentHeader(line) => uout.value.sentiment = ucall.st.sentiment
        /\ IsSentimentHeader(line) =>
              uout.value.sentiment =
                  IF In(KW_POSITIVE, line) THEN "positive"
                  ELSE IF In(KW_NEGATIVE, line) THEN "negative"
                  ELSE "neutral"

\* after a positive header, a header without keyword resets to neutral
C38_Witness ==
    /\ LoopPass
    /\ ucall.st.sentiment = "positive"
    /\ ucall.line = <<MK_SENTIMENT, ":", SP, "Nyuutoraru">>
    /\ uout.value.sentiment = "neutral"

(* C34: no step of process_pubsub_message changes the event or the document
   in it, and once the analysis step has returned no step changes the
   analysis: the analysis step is handed the event's data as it is, the
   notifier is handed the analysis as returned, and the store is handed the
   event's data and the analysis as returned; the document _process_document
   made of a raw mapping holds that mapping as it was given. *)
C34_InputsUnchanged ==
    [][/\ event' = event
       /\ ppc # "received" => pubsub_message' = pubsub_message
       /\ ppc \in {"analyzed", "notified", "stored"} =>
             analysis_result' = analysis_result
       /\ (ppc = "received" /\ ppc' # "received") =>
             /\ pubsub_message' = EventData(event)
             /\ calls'[1].data = EventData(event)
       /\ (ppc = "analyzed" /\ ppc' = "notified") =>
             calls'[2].data = analysis_result'
       /\ (ppc = "notified" /\ ppc' = "stored") =>
             /\ calls'[3].article_data = EventData(event')
             /\ calls'[3].analysis_data = calls'[2].data
             /\ calls'[3].analysis_data = analysis_result'
       /\ \A d \in RawInputs : _process_document(d).raw_data = d]_vars

\* a normalized document with its raw mapping went through both sinks
C34_Witness ==
    /\ ppc = "done"
    /\ event.data = PyDict(_process_document(RawPrimary))
    /\ pubsub_message.value.raw_data = RawPrimary
    /\ calls[3].article_data = event.data
    /\ calls[2].data = analysis_result
    /\ calls[3].analysis_data = analysis_result
    /\ Len(posts) = 1
    /\ Len(inserts) = 1

-----------------------------------------------------------------------------
(* The retry counter of stream() *)

\* this step is a call of get_documents
PullIssued == Len(pullLog') = Len(pullLog) + 1

\* this step is a failure inside the try: get_documents raised, or the
\* iteration over its result did
FailureStep ==
    \/ PullIssued /\ pullLog'[Len(pullLog')].len = -1
    \/ /\ Len(pullLog') = Len(pullLog)
       /\ pullLog # <<>>
       /\ pullLog[Len(pullLog)].status = "iterating"
       /\ pullLog'[Len(pullLog')].status = "failed"

\* the bounds of the counter
CountInRange ==
    /\ 0 <= retry_count
    /\ retry_count <= max_retries + 1
    /\ retry_count = max_retries + 1 => gen = "raised"

(* C35: in a run of stream(), 0 <= retry_count <= max_retries + 1; a pull
   is issued only while retry_count <= max_retries; a failure raises the
   counter by exactly 1 and nothing else raises it; the counter goes back
   to 0 only in the step that ends the iteration of a whole batch; and
   max_retries + 1 is reached exactly in the step in which stream()
   raises. *)
C35_RetryCountBounds ==
    [][entry # "none" =>
          /\ CountInRange
          /\ CountInRange'
          /\ PullIssued => retry_count <= max_retries
          /\ FailureStep <=> retry_count' = retry_count + 1
          /\ ~FailureStep => retry_count' \in {retry_count, 0}
          /\ retry_count' < retry_count =>
                /\ retry_count' = 0
                /\ pc = "iter"
                /\ idx = Len(documents)
                /\ pullLog'[Len(pullLog')].status = "done"
          /\ (pc = "iter" /\ idx < Len(documents)) => retry_count' >= retry_count
          /\ (gen = "running" /\ gen' = "raised") <=>
                (retry_count <= max_retries /\ retry_count' = max_retries + 1)
      ]_vars

\* a failure, a batch yielded in full that reset the counter, then failures
\* until stream() raised
C35_Witness ==
    /\ entry = "collect"
    /\ max_retries = 1
    /\ gen = "raised"
    /\ retry_count = max_retries + 1
    /\ Len(pullLog) = 4
    /\ pullLog[1].status = "failed"
    /\ pullLog[2].status = "done"
    /\ pullLog[2].len > 0
    /\ sleeps = <<Backoff(1), Backoff(1)>>

\* this step is a failure in the iteration over a batch: taking the next
\* item, or normalizing it, raised
MidBatchFailure ==
    /\ Len(pullLog') = Len(pullLog)
    /\ pullLog # <<>>
    /\ pullLog[Len(pullLog)].status = "iterating"
    /\ pullLog'[Len(pullLog')].status = "failed"

\* of every batch whose iteration failed, the documents yielded are the
\* first ones, in order, and at least one document was not yielded
FailedBatchesCut ==
    \A p \in 1..Len(pullLog) :
        (pullLog[p].status = "failed" /\ pullLog[p].len >= 0) =>
            /\ Len(YieldsOf(p)) < pullLog[p].len
            /\ YieldsOf(p) = TagsUpTo(p, Len(YieldsOf(p)))

(* C36: a failure in the iteration over a batch, some of whose documents
   may have been yielded already, is handled like a failed pull: the retry
   counter goes up by 1 from what it was, what was yielded and published
   stays, and unless the retries are used up stream() sleeps
   5 * retry_count and pulls afresh; the rest of the failed batch is never
   yielded. *)
C36_MidBatchFailureIsRetried ==
    [][/\ MidBatchFailure =>
             /\ idx < Len(documents)
             /\ retry_count' = retry_count + 1
             /\ yielded' = yielded
             /\ published' = published
             /\ retry_count' <= max_retries =>
                   /\ gen' = "running"
                   /\ pc' = "pull"
                   /\ sleeps' = Append(sleeps, Backoff(retry_count'))
             /\ retry_count' > max_retries =>
                   /\ gen' = "raised"
                   /\ sleeps' = sleeps
       /\ PullIssued =>
             (pullLog = <<>> \/ pullLog[Len(pullLog)].status \in {"done", "failed"})
       /\ FailedBatchesCut
       /\ FailedBatchesCut'
      ]_vars

\* the first batch failed after its first document was yielded; the fresh
\* pull returned the same document, and it was yielded again; the counter
\* still counts the failure
C36_Witness ==
    /\ Len(pullLog) = 2
    /\ pullLog[1].status = "failed"
    /\ pullLog[1].len = 2
    /\ pullLog[2].len >= 1
    /\ pullLog[2].docs[1] = pullLog[1].docs[1]
    /\ yielded = <<<<1, 1>>, <<2, 1>>>>
    /\ pc = "consume"
    /\ data = _process_document(pullLog[1].docs[1])
    /\ retry_count = 1
    /\ sleeps = <<Backoff(1)>>

(* C37: in main(), a failure of publish_message happens while the consumer
   holds a yielded document; it leaves retry_count, the sleeps, the pulls
   and the yields as they were, main() is left at once with the generator
   abandoned, and no step follows: no retry, no pull, no publish; every
   document yielded before the failing one was published, the failing one
   and the rest of its batch were not. *)
C37_PublishFailureEndsIngestion ==
    [][/\ (outcome # "publish_error" /\ outcome' = "publish_error") =>
             /\ entry = "main"
             /\ pc = "consume"
             /\ retry_count' = retry_count
             /\ sleeps' = sleeps
             /\ pullLog' = pullLog
             /\ yielded' = yielded
             /\ published' = published
             /\ pc' = "exit"
             /\ gen' = "abandoned"
             /\ published' = SubSeq(yielded', 1, Len(yielded') - 1)
             /\ pullLog'[Len(pullLog')].status = "iterating"
             /\ Len(YieldsOf(Len(pullLog)))' = idx'
       /\ outcome # "publish_error"
      ]_vars

\* after one failed pull, a batch of two: the first document was yielded,
\* its publish failed, the second one was never yielded
C37_Witness ==
    /\ entry = "main"
    /\ outcome = "publish_error"
    /\ pc = "exit"
    /\ Len(pullLog) = 2
    /\ pullLog[1].status = "failed"
    /\ pullLog[2].len = 2
    /\ yielded = <<<<2, 1>>>>
    /\ published = <<>>
    /\ retry_count = 1
    /\ sleeps = <<Backoff(1)>>

\* the embed of the i-th payload sent to the webhook
EmbedPosted(i) == posts[i].json.embeds[1]

\* the keys of an analysis from which the embed takes the article's details
ArticleKeys == {"title", "url", "source", "publication_date", "raw_data"}

(* C39: the analysis process_pubsub_message hands to the notifier - parsed
   from a reply, fallback, or made after a failed model call - has none of
   the keys title, url, source, publication_date, raw_data, and every embed
   sent has the placeholder title, the placeholder source, and the empty
   url and timestamp, whatever the document says; its description is the
   summary of the analysis. *)
C39_EmbedHasNoArticleDetails ==
    /\ Analysed => DOMAIN analysis_result \cap ArticleKeys = {}
    /\ \A i \in 1..Len(posts) :
          /\ EmbedPosted(i).title = "TaitoruNashi"
          /\ EmbedPosted(i).footer.text = <<"Source:", SP, "Fumei">>
          /\ EmbedPosted(i).url = ""
          /\ EmbedPosted(i).timestamp = ""
          /\ EmbedPosted(i).description = analysis_result.summary

\* a document with title, source and date; the model's analysis of it was
\* posted under the placeholder title
C39_Witness ==
    /\ ppc = "done"
    /\ event.data = PyDict(_process_document(RawPrimary))
    /\ Truthy(pubsub_message.value.title)
    /\ Truthy(pubsub_message.value.source)
    /\ Len(modelCalls) = 1
    /\ modelCalls[1].reply.kind = "text"
    /\ Len(posts) = 1
    /\ EmbedPosted(1).title = "TaitoruNashi"
    /\ EmbedPosted(1).title # pubsub_message.value.title

====
